---- MODULE Spec2Model ----
(***************************************************************************)
(* Model of the replacement transformer of airshipctl                      *)
(* (pkg/document/plugin/replacement/transformer.go).                       *)
(*                                                                         *)
(* Go strings are modelled as sequences of one-character strings, so that  *)
(* strings.Split, strings.ReplaceAll and the two regular expressions of    *)
(* the package are computed and not assumed.  A document node is a record  *)
(* tagged by its dynamic Go type:                                          *)
(*   [t |-> "str",  v |-> <<chars>>]     string                            *)
(*   [t |-> "int",  i |-> n]             integer                           *)
(*   [t |-> "bool", b |-> TRUE]          boolean                           *)
(*   [t |-> "float", f |-> <<chars>>]    float64, by its digits            *)
(*   [t |-> "nil"]                       a key present with a null value   *)
(*   [t |-> "map",  m |-> [keys -> Node]]  map[string]interface{}          *)
(*   [t |-> "seq",  s |-> <<Node, ...>>]   []interface{}                   *)
(* Go maps and slices are references, so every function that mutates its   *)
(* argument in place returns the mutated node together with the error:     *)
(* [n |-> node, e |-> error], where e = "nil" is Go's nil error.           *)
(***************************************************************************)
EXTENDS Integers, Sequences, FiniteSets, TLC

VARIABLES
    cfg,       \* the rule set handed to New (p.Replacements)
    docs,      \* the document collection (resmap.ResMap), mutated in place
    pc,        \* position of the caller: "new", "ready", "resolve", ...
    err,       \* the error returned by New / Transform ("nil" = none)
    ri,        \* index of the rule Transform is processing
    di,        \* index into the selected target resources (outer loop)
    pi,        \* index into the target's FieldRefs (inner loop)
    repl,      \* the replacement value resolved for rule ri
    sel,       \* resources selected by the target selector of rule ri
    docs0,     \* history: the collection when Transform was called
    ruleDocs,  \* history: the collection when rule ri was started
    log,       \* history: one record per step Transform has made
    uDoc,      \* tree mutator check: the root node handed to updateField
    uPath,     \* tree mutator check: the target path expression
    uSteps,    \* tree mutator check: the path as substitute has split it
    uRepl,     \* tree mutator check: the replacement value
    uOut,      \* tree mutator check: [n |-> node after the call, e |-> error]
    uPc,       \* tree mutator check: "in" before the call, "out" after it
    isoCfg,    \* isogen: the ImageConfiguration (volume and file names)
    isoDebug,  \* isogen: log.DebugEnabled()
    isoPc,     \* isogen: position in GenerateBootstrapIso
    isoCalls,  \* isogen: history of the calls createBootstrapIso has made
    isoFiles,  \* isogen: the files util.WriteFiles has written
    isoErr,    \* isogen: what createBootstrapIso returned ("none" before)
    genErr,    \* isogen: what GenerateBootstrapIso returned ("none" before)
    planPhases, \* plan: p.apiObj.Phases, each step with what its calls return
    planPc,    \* plan: position in plan.Run and in the phase.Run it calls
    planStep,  \* plan: index of the step the loop of plan.Run is at
    planErr,   \* plan: what plan.Run returned ([kind |-> "none"] before)
    planCalls, \* plan: history of the calls plan.Run and phase.Run have made
    planGo,    \* plan: the steps whose executor goroutine is running
    encO,      \* encryption config: the EncryptionConfigOptions
    encFiles,  \* encryption config: the paths that exist in the file system
    encPc,     \* encryption config: "in" before Validate, "out" after it
    encErr     \* encryption config: what Validate returned

vars == <<cfg, docs, pc, err, ri, di, pi, repl, sel, docs0, ruleDocs, log,
          uDoc, uPath, uSteps, uRepl, uOut, uPc,
          isoCfg, isoDebug, isoPc, isoCalls, isoFiles, isoErr, genErr,
          planPhases, planPc, planStep, planErr, planCalls, planGo,
          encO, encFiles, encPc, encErr>>

transformVars == <<cfg, docs, pc, err, ri, di, pi, repl, sel, docs0, ruleDocs,
                   log>>

mutatorVars == <<uDoc, uPath, uSteps, uRepl, uOut, uPc>>

isoVars == <<isoCfg, isoDebug, isoPc, isoCalls, isoFiles, isoErr, genErr>>

planVars == <<planPhases, planPc, planStep, planErr, planCalls, planGo>>

encVars == <<encO, encFiles, encPc, encErr>>

(***************************************************************************)
(* Strings                                                                 *)
(***************************************************************************)

\* const dotReplacer = "$$$$"
dotReplacer == <<"$", "$", "$", "$">>

Dot == <<".">>

Max(S) == CHOOSE x \in S : \A y \in S : y <= x

Min(S) == CHOOSE x \in S : \A y \in S : x <= y

\* positions of character c in s
Pos(s, c) == {i \in 1..Len(s) : s[i] = c}

\* strings.Contains(s, c) for a one-character c
Contains(s, c) == Pos(s, c) # {}

HasPrefix(s, p) == Len(s) >= Len(p) /\ SubSeq(s, 1, Len(p)) = p

Drop(s, k) == SubSeq(s, k + 1, Len(s))

\* strings.Split(s, c) for a one-character separator: n separators give n+1
\* parts, and the empty string gives one empty part
RECURSIVE Split(_, _)
Split(s, c) ==
    IF ~Contains(s, c) THEN <<s>>
    ELSE LET i == Min(Pos(s, c))
         IN  <<SubSeq(s, 1, i - 1)>> \o Split(Drop(s, i), c)

\* strings.Join(parts, sep)
RECURSIVE Join(_, _)
Join(parts, sep) ==
    IF Len(parts) = 0 THEN <<>>
    ELSE IF Len(parts) = 1 THEN parts[1]
    ELSE parts[1] \o sep \o Join(Tail(parts), sep)

\* strings.ReplaceAll(s, old, new) for a non-empty old: leftmost,
\* non-overlapping occurrences
RECURSIVE ReplaceAll(_, _, _)
ReplaceAll(s, old, new) ==
    IF Len(s) < Len(old) THEN s
    ELSE IF HasPrefix(s, old) THEN new \o ReplaceAll(Drop(s, Len(old)), old, new)
    ELSE <<s[1]>> \o ReplaceAll(Tail(s), old, new)

\* the class \S of the regular expressions
NonSpace(c) == c \notin {" "}

AllNonSpace(s, i, j) == \A x \in i..j : NonSpace(s[x])

Digits == <<"0", "1", "2", "3", "4", "5", "6", "7", "8", "9">>

IsDigit(c) == \E d \in 1..10 : Digits[d] = c

DigitVal(c) == (CHOOSE d \in 1..10 : Digits[d] = c) - 1

RECURSIVE DecVal(_)
DecVal(s) == IF Len(s) = 0 THEN 0
             ELSE 10 * DecVal(SubSeq(s, 1, Len(s) - 1)) + DigitVal(s[Len(s)])

\* strconv.Atoi: an optional sign and one or more decimal digits
Atoi(s) ==
    LET signed == Len(s) > 0 /\ s[1] \in {"+", "-"}
        body == IF signed THEN Tail(s) ELSE s
    IN  IF Len(body) = 0 \/ \E x \in 1..Len(body) : ~IsDigit(body[x])
        THEN [ok |-> FALSE, i |-> 0]
        ELSE [ok |-> TRUE,
              i |-> IF signed /\ s[1] = "-" THEN 0 - DecVal(body) ELSE DecVal(body)]

\* fmt.Sprint of an integer
RECURSIVE NatStr(_)
NatStr(n) == IF n < 10 THEN <<Digits[n + 1]>>
             ELSE NatStr(n \div 10) \o <<Digits[(n % 10) + 1]>>

Itoa(n) == IF n < 0 THEN <<"-">> \o NatStr(0 - n) ELSE NatStr(n)

(***************************************************************************)
(* The two package-level regular expressions                               *)
(***************************************************************************)

\* pattern = (\S+)\[(\S+)=(\S+)\] : the matches <<st, p1, p2, p3>> of the
\* expression in s, where group 1 is s[st..p1-1], s[p1] = "[", group 2 is
\* s[p1+1..p2-1], s[p2] = "=", group 3 is s[p2+1..p3-1] and s[p3] = "]"
patternMatches(s) ==
    {q \in (1..Len(s)) \X Pos(s, "[") \X Pos(s, "=") \X Pos(s, "]") :
        /\ q[1] < q[2] /\ q[2] + 1 < q[3] /\ q[3] + 1 < q[4]
        /\ AllNonSpace(s, q[1], q[4])}

\* the order in which the matcher prefers match q to match r: the leftmost
\* start first, then every \S+ greedy, the earlier group before the later
patternPrefers(q, r) ==
    \/ q[1] < r[1]
    \/ /\ q[1] = r[1]
       /\ \/ q[2] > r[2]
          \/ /\ q[2] = r[2]
             /\ \/ q[3] > r[3]
                \/ (q[3] = r[3] /\ q[4] >= r[4])

\* FindStringSubmatch: the preferred match
patternFind(s) ==
    CHOOSE q \in patternMatches(s) : \A r \in patternMatches(s) : patternPrefers(q, r)

\* groups[1], groups[2], groups[3], groups[2] != ""
patternGroups(path, q) ==
    [field   |-> SubSeq(path, q[1], q[2] - 1),
     key     |-> SubSeq(path, q[2] + 1, q[3] - 1),
     value   |-> SubSeq(path, q[3] + 1, q[4] - 1),
     isArray |-> SubSeq(path, q[2] + 1, q[3] - 1) # <<>>]

\* getFirstPathSegment taking every segment with a "[" for a filter on the
\* field named before it
getFirstPathSegmentBracket(path) ==
    IF ~Contains(path, "[")
    THEN [field |-> path, key |-> <<>>, value |-> <<>>, isArray |-> FALSE]
    ELSE [field   |-> SubSeq(path, 1, Min(Pos(path, "[")) - 1),
          key     |-> Drop(path, Min(Pos(path, "["))),
          value   |-> <<>>,
          isArray |-> TRUE]

getFirstPathSegment(path) ==
    IF patternMatches(path) = {}
    THEN [field |-> path, key |-> <<>>, value |-> <<>>, isArray |-> FALSE]
    ELSE patternGroups(path, patternFind(path))

\* substringPatternRegex = (\S+)%(\S+)%$ : the matches <<st, p1>>, where
\* group 1 is s[st..p1-1], s[p1] = "%", group 2 is s[p1+1..Len(s)-1] and the
\* last character of s is "%"
substringMatches(s) ==
    {q \in (1..Len(s)) \X Pos(s, "%") :
        /\ s[Len(s)] = "%"
        /\ q[1] < q[2] /\ q[2] + 1 < Len(s)
        /\ AllNonSpace(s, q[1], Len(s))}

substringPrefers(q, r) == q[1] < r[1] \/ (q[1] = r[1] /\ q[2] >= r[2])

substringFind(s) ==
    CHOOSE q \in substringMatches(s) :
        \A r \in substringMatches(s) : substringPrefers(q, r)

substringGroups(path, q) ==
    [path    |-> SubSeq(path, q[1], q[2] - 1),
     pattern |-> SubSeq(path, q[2] + 1, Len(path) - 1)]

\* Extract the substring pattern (if present) from the target path spec
extractSubstringPattern(path) ==
    IF substringMatches(path) = {}
    THEN [path |-> path, pattern |-> <<>>]
    ELSE substringGroups(path, substringFind(path))

(***************************************************************************)
(* substitute: from a target path expression to the path slice             *)
(***************************************************************************)

\* lines 158-160: the dots before the first "]" of a part are replaced
protectFilter(filter) ==
    Join([filter EXCEPT ![1] = ReplaceAll(filter[1], Dot, dotReplacer)], <<"]">>)

\* lines 156-162: only a part that contains "]" is changed
protectPart(part) ==
    IF Contains(part, "]") THEN protectFilter(Split(part, "]")) ELSE part

protectParts(parts) == [i \in 1..Len(parts) |-> protectPart(parts[i])]

\* lines 154-164
protectDots(p) == Join(protectParts(Split(p, "[")), <<"[">>)

\* lines 172-175: append back the extracted substring
appendPattern(split, pattern) ==
    IF Len(pattern) > 0
    THEN [split EXCEPT ![Len(split)] = @ \o <<"%">> \o pattern \o <<"%">>]
    ELSE split

\* lines 176-178
restoreDots(parts) ==
    [i \in 1..Len(parts) |-> ReplaceAll(parts[i], dotReplacer, Dot)]

\* lines 170-178, x being the result of extractSubstringPattern
splitPath(x) == restoreDots(appendPattern(Split(x.path, "."), x.pattern))

\* lines 154-178: the path slice handed to updateField
pathSlice(p) == splitPath(extractSubstringPattern(protectDots(p)))

(***************************************************************************)
(* Document nodes and errors                                               *)
(***************************************************************************)

Str(s) == [t |-> "str", v |-> s]

IntN(i) == [t |-> "int", i |-> i]

BoolN(b) == [t |-> "bool", b |-> b]

\* a float64, f being its digits
FloatN(f) == [t |-> "float", f |-> f]

Nil == [t |-> "nil"]

MapN(f) == [t |-> "map", m |-> f]

SeqN(q) == [t |-> "seq", s |-> q]

\* make(map[string]interface{})
EmptyMap == MapN(<<>>)

NoErr == "nil"

ErrBadConfiguration == "ErrBadConfiguration"

ErrMultipleResources == "ErrMultipleResources"

ErrSourceNotFound == "ErrSourceNotFound"

ErrTargetNotFound == "ErrTargetNotFound"

ErrTypeMismatch == "ErrTypeMismatch"

ErrIndexOutOfBound == "ErrIndexOutOfBound"

ErrMapNotFound == "ErrMapNotFound"

ErrPatternSubstring == "ErrPatternSubstring"

\* the *strconv.NumError that strconv.Atoi returns
ErrNumSyntax == "strconv.NumError"

\* the error of resource.GetFieldValue for a field that is not there
ErrNoField == "NoFieldError"

\* Go run-time panic "index out of range": the call does not return
PanicIndex == "panic: index out of range"

\* Go run-time fatal error "stack overflow" of an unbounded recursion
FatalStack == "fatal error: stack overflow"

\* the outcomes in which the function does not return to its caller
Aborts == {PanicIndex, FatalStack}

(***************************************************************************)
(* regexp: the expressions used as substring patterns.  Supported are a    *)
(* sequence of atoms, each a literal character, an escaped character, \d   *)
(* or ".", optionally followed by "+".                                     *)
(***************************************************************************)

RECURSIVE reCompile(_)
reCompile(p) ==
    IF Len(p) = 0 THEN <<>>
    ELSE LET esc  == p[1] = "\\" /\ Len(p) > 1
             atom == IF esc /\ p[2] = "d" THEN [k |-> "digit", c |-> "0"]
                     ELSE IF esc THEN [k |-> "lit", c |-> p[2]]
                     ELSE IF p[1] = "." THEN [k |-> "any", c |-> "."]
                     ELSE [k |-> "lit", c |-> p[1]]
             rest == Drop(p, IF esc THEN 2 ELSE 1)
             plus == Len(rest) > 0 /\ rest[1] = "+"
         IN  <<[k |-> atom.k, c |-> atom.c, plus |-> plus]>>
                 \o reCompile(IF plus THEN Tail(rest) ELSE rest)

reAccepts(tok, c) ==
    CASE tok.k = "digit" -> IsDigit(c)
      [] tok.k = "any"   -> c # "\n"
      [] OTHER           -> c = tok.c

\* the position after the preferred (greedy, backtracking) match of toks in
\* s starting at position i, or 0 when toks does not match there
RECURSIVE reEnd(_, _, _)
reEnd(toks, s, i) ==
    IF Len(toks) = 0 THEN i
    ELSE LET tok  == Head(toks)
             run  == {k \in 1..(Len(s) - i + 1) :
                         \A x \in i..(i + k - 1) : reAccepts(tok, s[x])}
             cand == IF tok.plus THEN run ELSE run \cap {1}
             good == {k \in cand : reEnd(Tail(toks), s, i + k) # 0}
         IN  IF good = {} THEN 0 ELSE reEnd(Tail(toks), s, i + Max(good))

\* Regexp.MatchString
MatchString(toks, s) == \E i \in 1..Len(s) : reEnd(toks, s, i) # 0

Letters == {"a", "b", "c", "d", "e", "f", "g", "h", "i", "j", "k", "l", "m",
            "n", "o", "p", "q", "r", "s", "t", "u", "v", "w", "x", "y", "z"}

IsWordChar(c) == c \in Letters \/ IsDigit(c) \/ c = "_"

\* regexp.extract: the name after a "$" of a replacement template
extract(str) ==
    LET brace == Len(str) > 0 /\ str[1] = "{"
        body  == IF brace THEN Tail(str) ELSE str
        stop  == {i \in 1..Len(body) : ~IsWordChar(body[i])}
        n     == IF stop = {} THEN Len(body) ELSE Min(stop) - 1
        name  == SubSeq(body, 1, n)
        isNum == Atoi(name).ok /\ name[1] \notin {"+", "-"}
                    /\ ~(name[1] = "0" /\ Len(name) > 1)
    IN  IF n = 0 \/ (brace /\ (n >= Len(body) \/ body[n + 1] # "}"))
        THEN [ok |-> FALSE, num |-> -1, rest |-> str]
        ELSE [ok |-> TRUE, num |-> IF isNum THEN Atoi(name).i ELSE -1,
              rest |-> Drop(body, IF brace THEN n + 1 ELSE n)]

\* Regexp.expand for an expression without capture groups: "$$" is "$",
\* "$0" and "${0}" are the match, every other group is empty, and a "$" that
\* starts no name is kept
RECURSIVE expand(_, _)
expand(template, match) ==
    IF ~Contains(template, "$") THEN template
    ELSE LET i      == Min(Pos(template, "$"))
             before == SubSeq(template, 1, i - 1)
             after  == Drop(template, i)
             x      == extract(after)
         IN  IF Len(after) > 0 /\ after[1] = "$"
             THEN before \o <<"$">> \o expand(Tail(after), match)
             ELSE IF ~x.ok THEN before \o <<"$">> \o expand(after, match)
             ELSE before \o (IF x.num = 0 THEN match ELSE <<>>)
                         \o expand(x.rest, match)

\* Regexp.ReplaceAllString, from position i of s
RECURSIVE replaceFrom(_, _, _, _)
replaceFrom(toks, s, i, r) ==
    IF i > Len(s) THEN <<>>
    ELSE LET e == reEnd(toks, s, i)
         IN  IF e = 0 THEN <<s[i]>> \o replaceFrom(toks, s, i + 1, r)
             ELSE expand(r, SubSeq(s, i, e - 1)) \o replaceFrom(toks, s, e, r)

ReplaceAllString(toks, s, r) == replaceFrom(toks, s, 1, r)

\* applySubstringPattern without the check of lines 246-251: a pattern that
\* does not match leaves the string as it is
applySubstringPatternUnmatched(target, replacement, substringPattern) ==
    IF substringPattern = <<>> THEN [v |-> replacement, e |-> NoErr]
    ELSE IF replacement.t \notin {"int", "str"}
    THEN [v |-> Nil, e |-> ErrPatternSubstring]
    ELSE IF target.t # "str" THEN [v |-> Nil, e |-> ErrPatternSubstring]
    ELSE [v |-> Str(ReplaceAllString(reCompile(substringPattern), target.v,
                                     IF replacement.t = "int"
                                     THEN Itoa(replacement.i) ELSE replacement.v)),
          e |-> NoErr]

\* applySubstringPattern with a type switch that takes every scalar: the
\* string form of a boolean or a float is substituted too
applySubstringPatternScalars(target, replacement, substringPattern) ==
    IF substringPattern = <<>> THEN [v |-> replacement, e |-> NoErr]
    ELSE IF replacement.t \notin {"int", "str", "bool", "float"}
    THEN [v |-> Nil, e |-> ErrPatternSubstring]
    ELSE IF target.t # "str" THEN [v |-> Nil, e |-> ErrPatternSubstring]
    ELSE IF ~MatchString(reCompile(substringPattern), target.v)
    THEN [v |-> Nil, e |-> ErrPatternSubstring]
    ELSE [v |-> Str(ReplaceAllString(
                        reCompile(substringPattern), target.v,
                        CASE replacement.t = "int" -> Itoa(replacement.i)
                          [] replacement.t = "str" -> replacement.v
                          [] replacement.t = "float" -> replacement.f
                          [] OTHER -> IF replacement.b
                                      THEN <<"t", "r", "u", "e">>
                                      ELSE <<"f", "a", "l", "s", "e">>)),
          e |-> NoErr]

\* apply a substring substitution based on a pattern
applySubstringPattern(target, replacement, substringPattern) ==
    IF substringPattern = <<>> THEN [v |-> replacement, e |-> NoErr]
    ELSE IF replacement.t \notin {"int", "str"}
    THEN [v |-> Nil, e |-> ErrPatternSubstring]
    ELSE IF target.t # "str" THEN [v |-> Nil, e |-> ErrPatternSubstring]
    ELSE LET replacementString ==
                 IF replacement.t = "int" THEN Itoa(replacement.i) ELSE replacement.v
             p == reCompile(substringPattern)
         IN  IF ~MatchString(p, target.v)
             THEN [v |-> Nil, e |-> ErrPatternSubstring]
             ELSE [v |-> Str(ReplaceAllString(p, target.v, replacementString)),
                   e |-> NoErr]

(***************************************************************************)
(* The tree mutator: updateField, updateMapField, updateSliceField         *)
(***************************************************************************)

\* the filter scan of lines 281-292 and 311-321: the first element that is
\* either not a map (the scan stops with ErrTypeMismatch) or a map whose
\* key holds the string value; 0 when the scan runs to the end of the list
\* scanIndex passing over the elements that are not maps
scanIndexSkips(list, key, value) ==
    LET hit == {i \in 1..Len(list) :
                   /\ list[i].t = "map"
                   /\ key \in DOMAIN list[i].m
                   /\ list[i].m[key] = Str(value)}
    IN  IF hit = {} THEN 0 ELSE Min(hit)

\* scanIndex taking the last match
scanIndexLast(list, key, value) ==
    LET hit == {i \in 1..Len(list) :
                   \/ list[i].t # "map"
                   \/ /\ key \in DOMAIN list[i].m
                      /\ list[i].m[key] = Str(value)}
    IN  IF hit = {} THEN 0 ELSE Max(hit)

scanIndex(list, key, value) ==
    LET hit == {i \in 1..Len(list) :
                   \/ list[i].t # "map"
                   \/ /\ key \in DOMAIN list[i].m
                      /\ list[i].m[key] = Str(value)}
    IN  IF hit = {} THEN 0 ELSE Min(hit)

\* the parent list m with element i replaced by the outcome of the call made
\* on that element
inElem(m, i, sub) == [n |-> SeqN([m.s EXCEPT ![i] = sub.n]), e |-> sub.e]

\* the parent map (contents m1) with key path replaced by the outcome of the
\* call made on its value
inKey(m1, path, sub) == [n |-> MapN([m1 EXCEPT ![path] = sub.n]), e |-> sub.e]

RECURSIVE updateField(_, _, _)
RECURSIVE updateMapField(_, _, _)
RECURSIVE updateSliceField(_, _, _)

\* sliceByFilter returning nil when the scan finds nothing
sliceByFilterSilent(m, pathToField, replacement, hit) ==
    IF hit = 0 THEN [n |-> m, e |-> NoErr]
    ELSE IF m.s[hit].t # "map" THEN [n |-> m, e |-> ErrTypeMismatch]
    ELSE inElem(m, hit, updateField(m.s[hit], Tail(pathToField), replacement))

\* updateSliceField, lines 310-323, hit being the outcome of the scan
sliceByFilter(m, pathToField, replacement, hit) ==
    IF hit = 0 THEN [n |-> m, e |-> ErrMapNotFound]
    ELSE IF m.s[hit].t # "map" THEN [n |-> m, e |-> ErrTypeMismatch]
    ELSE inElem(m, hit, updateField(m.s[hit], Tail(pathToField), replacement))

\* sliceByIndex appending the replacement when the index is the length of
\* the list
sliceByIndexAppends(m, pathToField, replacement, a) ==
    IF ~a.ok THEN [n |-> m, e |-> ErrNumSyntax]
    ELSE IF Len(m.s) < a.i \/ a.i < 0 THEN [n |-> m, e |-> ErrIndexOutOfBound]
    ELSE IF a.i + 1 > Len(m.s)
    THEN [n |-> SeqN(Append(m.s, replacement)), e |-> NoErr]
    ELSE IF Len(pathToField) = 1
    THEN [n |-> SeqN([m.s EXCEPT ![a.i + 1] = replacement]), e |-> NoErr]
    ELSE inElem(m, a.i + 1,
                updateField(m.s[a.i + 1], Tail(pathToField), replacement))

\* updateSliceField, lines 325-337, a being the result of strconv.Atoi
sliceByIndex(m, pathToField, replacement, a) ==
    IF ~a.ok THEN [n |-> m, e |-> ErrNumSyntax]
    ELSE IF Len(m.s) < a.i \/ a.i < 0 THEN [n |-> m, e |-> ErrIndexOutOfBound]
    \* m[index] with index = len(m)
    ELSE IF a.i + 1 > Len(m.s) THEN [n |-> m, e |-> PanicIndex]
    ELSE IF Len(pathToField) = 1
    THEN [n |-> SeqN([m.s EXCEPT ![a.i + 1] = replacement]), e |-> NoErr]
    ELSE inElem(m, a.i + 1,
                updateField(m.s[a.i + 1], Tail(pathToField), replacement))

sliceBySegment(m, pathToField, replacement, seg) ==
    IF seg.isArray
    THEN sliceByFilter(m, pathToField, replacement,
                       scanIndex(m.s, seg.key, seg.value))
    ELSE sliceByIndex(m, pathToField, replacement, Atoi(pathToField[1]))

updateSliceField(m, pathToField, replacement) ==
    IF Len(pathToField) = 0 THEN [n |-> m, e |-> NoErr]
    ELSE sliceBySegment(m, pathToField, replacement,
                        getFirstPathSegment(pathToField[1]))

\* mapAssign without the assignment of line 276
mapAssignNothing(m1, path, r) == [n |-> MapN(m1), e |-> r.e]

\* updateMapField, lines 272-277, r being the result of applySubstringPattern
mapAssign(m1, path, r) ==
    IF r.e # NoErr THEN [n |-> MapN(m1), e |-> r.e]
    ELSE [n |-> MapN([m1 EXCEPT ![path] = r.v]), e |-> NoErr]

\* updateMapField, lines 298-301
mapDescend(m1, path, isArray, pathToField, replacement) ==
    inKey(m1, path,
          IF isArray THEN updateField(m1[path], pathToField, replacement)
          ELSE updateField(m1[path], Tail(pathToField), replacement))

\* mapByFilter assigning to the field and not to the element found
mapByFilterWholeField(m1, path, pathToField, replacement, hit) ==
    IF hit # 0 /\ m1[path].s[hit].t # "map"
    THEN [n |-> MapN(m1), e |-> ErrTypeMismatch]
    ELSE IF hit # 0
    THEN [n |-> MapN([m1 EXCEPT ![path] = replacement]), e |-> NoErr]
    ELSE mapDescend(m1, path, TRUE, pathToField, replacement)

\* updateMapField, lines 279-299 for a list v, hit being the outcome of the
\* scan: a scan that runs to the end falls through to line 298
mapByFilter(m1, path, pathToField, replacement, hit) ==
    IF hit # 0 /\ m1[path].s[hit].t # "map"
    THEN [n |-> MapN(m1), e |-> ErrTypeMismatch]
    ELSE IF hit # 0
    THEN [n |-> MapN([m1 EXCEPT ![path] =
                         SeqN([m1[path].s EXCEPT ![hit] = replacement])]),
          e |-> NoErr]
    ELSE mapDescend(m1, path, TRUE, pathToField, replacement)

\* mapAt without the check of lines 266-268: a nil value is treated as
\* every other value
mapAtNilAllowed(m1, found, path, seg, pattern, pathToField, replacement) ==
    IF Len(pathToField) = 1 /\ ~seg.isArray
    THEN mapAssign(m1, path, applySubstringPattern(m1[path], replacement, pattern))
    ELSE IF Len(pathToField) = 1 /\ m1[path].t # "seq"
    THEN [n |-> MapN(m1), e |-> ErrTypeMismatch]
    ELSE IF Len(pathToField) = 1
    THEN mapByFilter(m1, path, pathToField, replacement,
                     scanIndex(m1[path].s, seg.key, seg.value))
    ELSE IF seg.isArray /\ ~found THEN [n |-> MapN(m1), e |-> FatalStack]
    ELSE mapDescend(m1, path, seg.isArray, pathToField, replacement)

\* updateMapField, lines 266-301: m1 is the map after line 264, found the
\* result of the lookup of line 260
mapAt(m1, found, path, seg, pattern, pathToField, replacement) ==
    IF m1[path].t = "nil" THEN [n |-> MapN(m1), e |-> ErrTypeMismatch]
    ELSE IF Len(pathToField) = 1 /\ ~seg.isArray
    THEN mapAssign(m1, path, applySubstringPattern(m1[path], replacement, pattern))
    ELSE IF Len(pathToField) = 1 /\ m1[path].t # "seq"
    THEN [n |-> MapN(m1), e |-> ErrTypeMismatch]
    ELSE IF Len(pathToField) = 1
    THEN mapByFilter(m1, path, pathToField, replacement,
                     scanIndex(m1[path].s, seg.key, seg.value))
    \* a filter step on a key that was just created: updateField is called
    \* on the new empty map with the same path, creates the key in it again,
    \* and so on without end
    ELSE IF seg.isArray /\ ~found THEN [n |-> MapN(m1), e |-> FatalStack]
    ELSE mapDescend(m1, path, seg.isArray, pathToField, replacement)

\* mapVivify without lines 261-264: an absent key is a type mismatch
mapVivifyNot(m, path, seg, pattern, pathToField, replacement) ==
    IF path \in DOMAIN m.m
    THEN mapAt(m.m, TRUE, path, seg, pattern, pathToField, replacement)
    ELSE [n |-> m, e |-> ErrTypeMismatch]

\* mapVivify taking the created key out again when the step fails
mapVivifyUndone(m, path, seg, pattern, pathToField, replacement) ==
    IF path \in DOMAIN m.m
    THEN mapAt(m.m, TRUE, path, seg, pattern, pathToField, replacement)
    ELSE IF mapAt((path :> EmptyMap) @@ m.m, FALSE, path, seg, pattern,
                  pathToField, replacement).e = NoErr
    THEN mapAt((path :> EmptyMap) @@ m.m, FALSE, path, seg, pattern,
               pathToField, replacement)
    ELSE [n |-> m,
          e |-> mapAt((path :> EmptyMap) @@ m.m, FALSE, path, seg, pattern,
                      pathToField, replacement).e]

\* updateMapField, lines 260-264: an absent key is created as an empty map
mapVivify(m, path, seg, pattern, pathToField, replacement) ==
    mapAt(IF path \in DOMAIN m.m THEN m.m ELSE (path :> EmptyMap) @@ m.m,
          path \in DOMAIN m.m, path, seg, pattern, pathToField, replacement)

\* updateMapField, line 258, x being the result of extractSubstringPattern
mapBySegment(m, pathToField, replacement, seg, x) ==
    mapVivify(m, x.path, seg, x.pattern, pathToField, replacement)

\* updateMapField, lines 256-258
mapSegment(m, pathToField, replacement, seg) ==
    mapBySegment(m, pathToField, replacement, seg,
                 extractSubstringPattern(seg.field))

updateMapField(m, pathToField, replacement) ==
    mapSegment(m, pathToField, replacement, getFirstPathSegment(pathToField[1]))

\* updateField with a default case that returns nil
updateFieldLenient(m, pathToField, replacement) ==
    IF Len(pathToField) = 0 THEN [n |-> m, e |-> NoErr]
    ELSE IF m.t = "map" THEN updateMapField(m, pathToField, replacement)
    ELSE IF m.t = "seq" THEN updateSliceField(m, pathToField, replacement)
    ELSE [n |-> m, e |-> NoErr]

updateField(m, pathToField, replacement) ==
    IF Len(pathToField) = 0 THEN [n |-> m, e |-> NoErr]
    ELSE IF m.t = "map" THEN updateMapField(m, pathToField, replacement)
    ELSE IF m.t = "seq" THEN updateSliceField(m, pathToField, replacement)
    ELSE [n |-> m, e |-> ErrTypeMismatch]

\* substitute, lines 152-181, for one resource and one field reference
applyFieldRef(m, p, replacement) == updateField(m, pathSlice(p), replacement)

(***************************************************************************)
(* The document collection and the rule set                                *)
(*                                                                         *)
(* A document is [kind, name, body]: body is the tree r.Map() returns,     *)
(* kind and name are what the selectors of resmap.Select compare.  A rule  *)
(* is [source, target]; a Go nil pointer is NilPtr.                        *)
(***************************************************************************)

NilPtr == [ptr |-> "nil"]

\* resmap.Select: the indices of the documents the selector matches, in the
\* order of the collection; an empty name matches every name
RECURSIVE selectFrom(_, _, _)
selectFrom(m, s, i) ==
    IF i > Len(m) THEN <<>>
    ELSE (IF m[i].kind = s.kind /\ (s.name = "" \/ m[i].name = s.name)
          THEN <<i>> ELSE <<>>) \o selectFrom(m, s, i + 1)

Select(m, s) == selectFrom(m, s, 1)

\* resource.GetFieldValue: the value at a dotted path of maps, an error when
\* a field of the path is not there
RECURSIVE getField(_, _)
getField(node, parts) ==
    IF Len(parts) = 0 THEN [v |-> node, e |-> NoErr]
    ELSE IF node.t # "map" \/ Head(parts) \notin DOMAIN node.m
    THEN [v |-> Nil, e |-> ErrNoField]
    ELSE getField(node.m[Head(parts)], Tail(parts))

GetFieldValue(body, fieldRef) == getField(body, Split(fieldRef, "."))

\* "metadata.name", the default of an empty source fieldref
defaultFieldRef == <<"m", "e", "t", "a", "d", "a", "t", "a", ".", "n", "a", "m", "e">>

\* getFromSelected taking the first of several matches
getFromSelectedFirst(m, resources, fieldRef) ==
    IF Len(resources) = 0 THEN [v |-> Nil, e |-> ErrSourceNotFound]
    ELSE GetFieldValue(m[resources[1]].body,
                       IF fieldRef = <<>> THEN defaultFieldRef ELSE fieldRef)

\* getReplacement, lines 131-140, resources being the result of Select
getFromSelected(m, resources, fieldRef) ==
    IF Len(resources) > 1 THEN [v |-> Nil, e |-> ErrMultipleResources]
    ELSE IF Len(resources) = 0 THEN [v |-> Nil, e |-> ErrSourceNotFound]
    ELSE GetFieldValue(m[resources[1]].body,
                       IF fieldRef = <<>> THEN defaultFieldRef ELSE fieldRef)

getReplacement(m, objRef, fieldRef) ==
    getFromSelected(m, Select(m, objRef), fieldRef)

\* badReplacement without its third check
badReplacementNoBoth(r) == r.source = NilPtr \/ r.target = NilPtr

\* the three checks New makes on one replacement
badReplacement(r) ==
    \/ r.source = NilPtr
    \/ r.target = NilPtr
    \/ (r.source.objref # NilPtr /\ r.source.value # <<>>)

\* the error New returns for the rule set
newError(replacements) ==
    IF \E i \in 1..Len(replacements) : badReplacement(replacements[i])
    THEN ErrBadConfiguration ELSE NoErr

\* withLiteral without lines 107-109: the literal is never taken
withLiteralDropped(r, got) == got

\* Transform, lines 103-109, got being the result of getReplacement
withLiteral(r, got) ==
    IF got.e # NoErr THEN got
    ELSE IF r.source.value # <<>> THEN [v |-> Str(r.source.value), e |-> NoErr]
    ELSE got

\* Transform, lines 100-109: the replacement value of rule r
resolveSource(m, r) ==
    withLiteral(r, IF r.source.objref # NilPtr
                   THEN getReplacement(m, r.source.objref, r.source.fieldref)
                   ELSE [v |-> Nil, e |-> NoErr])

(***************************************************************************)
(* Inputs of the Transform specification                                   *)
(***************************************************************************)

\* the largest number of rules in a rule set
MaxRules == 2

kMetadata == <<"m", "e", "t", "a", "d", "a", "t", "a">>

kName == <<"n", "a", "m", "e">>

kHost == <<"h", "o", "s", "t">>

kSans == <<"s", "a", "n", "s">>

kLbl == <<"l", "b", "l">>

ClusterBody(name, host) ==
    MapN(kMetadata :> MapN(kName :> Str(name)) @@ kHost :> Str(host))

\* two documents of kind Cluster (sources) and two of kind Kubeadm (targets)
DocPool ==
    << [kind |-> "Cluster", name |-> "c1",
        body |-> ClusterBody(<<"c", "1">>, <<"h", "1">>)],
       [kind |-> "Cluster", name |-> "c2",
        body |-> ClusterBody(<<"c", "2">>, <<"h", "2">>)],
       [kind |-> "Kubeadm", name |-> "k1",
        body |-> MapN(kSans :> SeqN(<<Str(<<"s", "0">>)>>))],
       [kind |-> "Kubeadm", name |-> "k2",
        body |-> MapN(kSans :> SeqN(<<Str(<<"s", "0">>), Str(<<"s", "1">>),
                                      Str(<<"s", "2">>)>>)
                      @@ kLbl :> Str(<<"x">>))] >>

RECURSIVE pick(_, _, _)
pick(pool, S, i) ==
    IF i > Len(pool) THEN <<>>
    ELSE (IF i \in S THEN <<pool[i]>> ELSE <<>>) \o pick(pool, S, i + 1)

\* a collection holds any subset of the pool, in the pool's order
Collections == {pick(DocPool, S, 1) : S \in SUBSET (1..Len(DocPool))}

Sel(kind, name) == [kind |-> kind, name |-> name]

Source(objref, value, fieldref) ==
    [objref |-> objref, value |-> value, fieldref |-> fieldref]

Target(objref, fieldrefs) == [objref |-> objref, fieldrefs |-> fieldrefs]

Lit == <<"l", "i", "t">>

pSans0 == kSans \o <<".", "0">>

pSans1 == kSans \o <<".", "1">>

pSans2 == kSans \o <<".", "2">>

pEnvX == <<"e", "n", "v", ".", "x">>

pLblE == kLbl \o <<".", "e">>

\* a filter step followed by a further step
pLblKVE == kLbl \o <<"[", "k", "=", "v", "]", ".", "e">>

RulePool ==
    { \* host of Cluster/c1 into the first SAN of every Kubeadm
      [source |-> Source(Sel("Cluster", "c1"), <<>>, kHost),
       target |-> Target(Sel("Kubeadm", ""), <<pSans0>>)],
      \* a literal into two paths of every Kubeadm
      [source |-> Source(NilPtr, Lit, <<>>),
       target |-> Target(Sel("Kubeadm", ""), <<pEnvX, pSans2>>)],
      \* metadata.name of the only Cluster into lbl.e of every Kubeadm
      [source |-> Source(Sel("Cluster", ""), <<>>, <<>>),
       target |-> Target(Sel("Kubeadm", ""), <<pLblE>>)],
      \* a literal into the host of Cluster/c1
      [source |-> Source(NilPtr, Lit, <<>>),
       target |-> Target(Sel("Cluster", "c1"), <<kHost>>)],
      \* a literal into the second SAN of every Kubeadm
      [source |-> Source(NilPtr, Lit, <<>>),
       target |-> Target(Sel("Kubeadm", ""), <<pSans1>>)],
      \* no source
      [source |-> NilPtr,
       target |-> Target(Sel("Kubeadm", ""), <<pSans0>>)],
      \* no target
      [source |-> Source(NilPtr, Lit, <<>>), target |-> NilPtr],
      \* an object reference and a literal
      [source |-> Source(Sel("Cluster", "c1"), Lit, kHost),
       target |-> Target(Sel("Kubeadm", ""), <<pSans0>>)],
      \* neither an object reference nor a literal
      [source |-> Source(NilPtr, <<>>, <<>>),
       target |-> Target(Sel("Kubeadm", "k1"), <<pSans0>>)],
      \* a literal into the element with k = v of the list lbl of Kubeadm/k1,
      \* which has no key lbl
      [source |-> Source(NilPtr, Lit, <<>>),
       target |-> Target(Sel("Kubeadm", "k1"), <<pLblKVE>>)] }

RECURSIVE SeqsUpTo(_, _)
SeqsUpTo(S, n) ==
    IF n = 0 THEN {<<>>}
    ELSE LET shorter == SeqsUpTo(S, n - 1)
         IN  shorter \cup {Append(q, x) : q \in {r \in shorter : Len(r) = n - 1},
                                          x \in S}

RuleSets == SeqsUpTo(RulePool, MaxRules)

(***************************************************************************)
(* New and Transform                                                       *)
(***************************************************************************)

\* GenerateBootstrapIso is not called
IdleIso ==
    /\ isoCfg = [volume |-> <<>>, userDataFileName |-> <<>>,
                 networkConfigFileName |-> <<>>]
    /\ isoDebug = FALSE
    /\ isoPc = "idle"
    /\ isoCalls = <<>>
    /\ isoFiles = <<>>
    /\ isoErr = "none"
    /\ genErr = "none"

\* plan.Run is not called
IdlePlan ==
    /\ planPhases = <<>>
    /\ planPc = "idle"
    /\ planStep = 0
    /\ planErr = "none"
    /\ planCalls = <<>>
    /\ planGo = {}

\* EncryptionConfigOptions.Validate is not called
IdleEnc ==
    /\ encO = [Name |-> <<>>, EncryptionKeyPath |-> <<>>,
               DecryptionKeyPath |-> <<>>, KeySecretName |-> <<>>,
               KeySecretNamespace |-> <<>>]
    /\ encFiles = {}
    /\ encPc = "idle"
    /\ encErr = [kind |-> "none", flag |-> "", path |-> <<>>]

IdleMutator ==
    /\ uDoc = EmptyMap
    /\ uPath = <<>>
    /\ uSteps = <<>>
    /\ uRepl = Nil
    /\ uOut = [n |-> EmptyMap, e |-> NoErr]
    /\ uPc = "idle"

Init ==
    /\ cfg \in RuleSets
    /\ docs \in Collections
    /\ docs0 = docs
    /\ ruleDocs = docs
    /\ pc = "new"
    /\ err = NoErr
    /\ ri = 0 /\ di = 0 /\ pi = 0
    /\ repl = Nil
    /\ sel = <<>>
    /\ log = <<>>
    /\ IdleMutator
    /\ IdleIso
    /\ IdlePlan
    /\ IdleEnc

\* a record of the history: the step made, the rule, the document and the
\* field reference it was made for, its error, and the collection after it
Event(op, rule, doc, path, e, after) ==
    [op |-> op, rule |-> rule, doc |-> doc, path |-> path, e |-> e,
     after |-> after]

\* New: the rule set is rejected as a whole or a plugin is returned
New ==
    /\ pc = "new"
    /\ err' = newError(cfg)
    /\ pc' = IF newError(cfg) = NoErr THEN "ready" ELSE "rejected"
    /\ UNCHANGED <<cfg, docs, ri, di, pi, repl, sel, docs0, ruleDocs, log>>
    /\ UNCHANGED <<mutatorVars, isoVars, planVars, encVars>>

\* Transform is called on the collection
TransformCall ==
    /\ pc = "ready"
    /\ docs0' = docs
    /\ ri' = 1
    /\ pc' = IF Len(cfg) = 0 THEN "done" ELSE "resolve"
    /\ UNCHANGED <<cfg, docs, err, di, pi, repl, sel, ruleDocs, log>>
    /\ UNCHANGED <<mutatorVars, isoVars, planVars, encVars>>

\* Transform, lines 103-106: an error of the source ends Transform
resolved(got) ==
    /\ log' = Append(log, Event("resolve", ri, 0, 0, got.e, docs))
    /\ ruleDocs' = docs
    /\ IF got.e # NoErr
       THEN pc' = "done" /\ err' = got.e /\ repl' = repl
       ELSE pc' = "select" /\ err' = err /\ repl' = got.v

\* Resolve reading the collection as it was when Transform was called
ResolveFromStart ==
    /\ pc = "resolve"
    /\ resolved(resolveSource(docs0, cfg[ri]))
    /\ UNCHANGED <<cfg, docs, ri, di, pi, sel, docs0>>
    /\ UNCHANGED <<mutatorVars, isoVars, planVars, encVars>>

\* Transform, lines 100-109: the source of rule ri is resolved
Resolve ==
    /\ pc = "resolve"
    /\ resolved(resolveSource(docs, cfg[ri]))
    /\ UNCHANGED <<cfg, docs, ri, di, pi, sel, docs0>>
    /\ UNCHANGED <<mutatorVars, isoVars, planVars, encVars>>

\* where Transform continues after the loops of substitute have ended for
\* rule ri
afterRule == IF ri < Len(cfg) THEN "resolve" ELSE "done"

\* selected without the check of lines 148-150: the loop over no resource
\* does nothing and Transform goes on
selectedSkipsEmpty(resources) ==
    /\ log' = Append(log, Event("select", ri, 0, 0, NoErr, docs))
    /\ sel' = resources
    /\ di' = 1 /\ pi' = 1
    /\ err' = err
    /\ IF Len(resources) = 0 \/ Len(cfg[ri].target.fieldrefs) = 0
       THEN pc' = afterRule /\ ri' = IF ri < Len(cfg) THEN ri + 1 ELSE ri
       ELSE pc' = "apply" /\ ri' = ri

\* substitute, lines 148-150: no target resource ends Transform
selected(resources) ==
    /\ log' = Append(log, Event("select", ri, 0, 0,
                        IF Len(resources) = 0 THEN ErrTargetNotFound ELSE NoErr,
                        docs))
    /\ sel' = resources
    /\ di' = 1 /\ pi' = 1
    /\ IF Len(resources) = 0
       THEN pc' = "done" /\ err' = ErrTargetNotFound /\ ri' = ri
       ELSE IF Len(cfg[ri].target.fieldrefs) = 0
       THEN pc' = afterRule /\ err' = err
            /\ ri' = IF ri < Len(cfg) THEN ri + 1 ELSE ri
       ELSE pc' = "apply" /\ err' = err /\ ri' = ri

\* substitute, lines 144-150: the target resources of rule ri are selected
SelectTargets ==
    /\ pc = "select"
    /\ selected(Select(docs, cfg[ri].target.objref))
    /\ UNCHANGED <<cfg, docs, repl, docs0, ruleDocs>>
    /\ UNCHANGED <<mutatorVars, isoVars, planVars, encVars>>

\* substituted with the error of updateField dropped: the loops go on
substitutedGoesOn(d, out) ==
    /\ docs' = [docs EXCEPT ![d].body = out.n]
    /\ log' = Append(log, Event("apply", ri, d, pi, out.e,
                               [docs EXCEPT ![d].body = out.n]))
    /\ IF pi < Len(cfg[ri].target.fieldrefs)
       THEN pc' = "apply" /\ pi' = pi + 1 /\ UNCHANGED <<err, ri, di>>
       ELSE IF di < Len(sel)
       THEN pc' = "apply" /\ di' = di + 1 /\ pi' = 1 /\ UNCHANGED <<err, ri>>
       ELSE /\ pc' = afterRule
            /\ ri' = IF ri < Len(cfg) THEN ri + 1 ELSE ri
            /\ UNCHANGED <<err, di, pi>>

\* substituted with the loops exchanged: field references outside,
\* resources inside
substitutedPathsOuter(d, out) ==
    /\ docs' = [docs EXCEPT ![d].body = out.n]
    /\ log' = Append(log, Event("apply", ri, d, pi, out.e,
                               [docs EXCEPT ![d].body = out.n]))
    /\ IF out.e \in Aborts
       THEN pc' = "crashed" /\ err' = out.e /\ UNCHANGED <<ri, di, pi>>
       ELSE IF out.e # NoErr
       THEN pc' = "done" /\ err' = out.e /\ UNCHANGED <<ri, di, pi>>
       ELSE IF di < Len(sel)
       THEN pc' = "apply" /\ di' = di + 1 /\ UNCHANGED <<err, ri, pi>>
       ELSE IF pi < Len(cfg[ri].target.fieldrefs)
       THEN pc' = "apply" /\ pi' = pi + 1 /\ di' = 1 /\ UNCHANGED <<err, ri>>
       ELSE /\ pc' = afterRule
            /\ ri' = IF ri < Len(cfg) THEN ri + 1 ELSE ri
            /\ UNCHANGED <<err, di, pi>>

\* substituted writing the outcome to the first document of the collection
\* as well
substitutedAlsoFirst(d, out) ==
    /\ docs' = [docs EXCEPT ![d].body = out.n, ![1].body = out.n]
    /\ log' = Append(log, Event("apply", ri, d, pi, out.e,
                               [docs EXCEPT ![d].body = out.n]))
    /\ IF out.e \in Aborts
       THEN pc' = "crashed" /\ err' = out.e /\ UNCHANGED <<ri, di, pi>>
       ELSE IF out.e # NoErr
       THEN pc' = "done" /\ err' = out.e /\ UNCHANGED <<ri, di, pi>>
       ELSE IF pi < Len(cfg[ri].target.fieldrefs)
       THEN pc' = "apply" /\ pi' = pi + 1 /\ UNCHANGED <<err, ri, di>>
       ELSE IF di < Len(sel)
       THEN pc' = "apply" /\ di' = di + 1 /\ pi' = 1 /\ UNCHANGED <<err, ri>>
       ELSE /\ pc' = afterRule
            /\ ri' = IF ri < Len(cfg) THEN ri + 1 ELSE ri
            /\ UNCHANGED <<err, di, pi>>

\* substitute, lines 151-183: the loops go on after a nil error, resources
\* outside, field references inside; any other error is returned at once
substituted(d, out) ==
    /\ docs' = [docs EXCEPT ![d].body = out.n]
    /\ log' = Append(log, Event("apply", ri, d, pi, out.e,
                               [docs EXCEPT ![d].body = out.n]))
    /\ IF out.e \in Aborts
       THEN pc' = "crashed" /\ err' = out.e /\ UNCHANGED <<ri, di, pi>>
       ELSE IF out.e # NoErr
       THEN pc' = "done" /\ err' = out.e /\ UNCHANGED <<ri, di, pi>>
       ELSE IF pi < Len(cfg[ri].target.fieldrefs)
       THEN pc' = "apply" /\ pi' = pi + 1 /\ UNCHANGED <<err, ri, di>>
       ELSE IF di < Len(sel)
       THEN pc' = "apply" /\ di' = di + 1 /\ pi' = 1 /\ UNCHANGED <<err, ri>>
       ELSE /\ pc' = afterRule
            /\ ri' = IF ri < Len(cfg) THEN ri + 1 ELSE ri
            /\ UNCHANGED <<err, di, pi>>

\* substitute, lines 151-183: one iteration of the inner loop, resource
\* sel[di] and field reference pi
Apply ==
    /\ pc = "apply"
    /\ substituted(sel[di],
                   applyFieldRef(docs[sel[di]].body,
                                 cfg[ri].target.fieldrefs[pi], repl))
    /\ UNCHANGED <<cfg, repl, sel, docs0, ruleDocs>>
    /\ UNCHANGED <<mutatorVars, isoVars, planVars, encVars>>

Next == New \/ TransformCall \/ Resolve \/ SelectTargets \/ Apply

Spec == Init /\ [][Next]_vars

(***************************************************************************)
(* The tree mutator on its own: one target path applied to one document    *)
(***************************************************************************)

\* the longest list in a document
MaxSeqLen == 3

\* the largest list index in a path
MaxIndex == 4

fA == <<"a">>

fB == <<"b">>

fC == <<"c">>

fE == <<"e">>

fK == <<"k">>

\* the elements of the lists: a string and three maps with the key k
Elems ==
    {Str(<<"s">>), MapN(fK :> Str(<<"v">>)), MapN(fK :> Str(<<"w">>)),
     MapN(fK :> IntN(1))}

Lists == {SeqN(q) : q \in SeqsUpTo(Elems, MaxSeqLen)}

\* what the key a of a document holds
Values ==
    Lists \cup
    {Str(<<"s">>), IntN(5), Nil, EmptyMap, MapN(fB :> Str(<<"x">>)),
     MapN(fB :> MapN(fE :> Str(<<"x">>))), MapN(fB :> SeqN(<<Str(<<"s">>)>>)),
     Str(<<"s", "1", "-", "2", "2", "s">>), BoolN(TRUE),
     SeqN(<<MapN(fK :> Str(<<"1", ".", "2">>) @@ fB :> Str(<<"x">>))>>)}

\* every document has the key c; the key d is in none
MutatorDocs ==
    {MapN(fC :> Str(<<"y">>))}
        \cup {MapN(fA :> x @@ fC :> Str(<<"y">>)) : x \in Values}

Filter(name, key, value) == name \o <<"[">> \o key \o <<"=">> \o value \o <<"]">>

PlainPaths ==
    { <<"a">>, <<"a", ".", "b">>, <<"a", ".", "b", ".", "e">>, <<"c">>, <<"d">>,
      <<"d", ".", "b", ".", "e">> }

FilterValues == {<<"v">>, <<"w">>, <<"z">>, <<"1">>}

FilterPaths ==
    {Filter(fA, fK, v) : v \in FilterValues}
        \cup {Filter(fA, fK, v) \o <<".", "b">> : v \in {<<"v">>, <<"z">>}}
        \cup {Filter(<<"d">>, fK, <<"v">>), Filter(<<"d">>, fK, <<"v">>) \o <<".", "b">>}

IndexPaths ==
    {fA \o Dot \o Itoa(i) : i \in (-1)..MaxIndex}
        \cup {fA \o Dot \o Itoa(i) \o <<".", "b">> : i \in 0..MaxIndex}
        \cup {<<"a", ".", "x">>}

BracketPaths ==
    {fA \o <<"[">> \o Itoa(i) \o <<"]">> : i \in 0..MaxIndex}
        \cup {<<"a", ".", "b", "[", "0", "]">>}

PatternPaths ==
    { <<"c", "%", "y", "%">>, <<"a", "%", "s", "%">>, <<"d", "%", "y", "%">>,
      <<"a", ".", "0", "%", "s", "%">>, <<"a", "%", "\\", "d", "+", "%">>,
      <<"a", "%", "z", "%">>, <<"a", ".", "b", "%", "x", "%">> }

\* filter values with dots; the last one also holds the text of dotReplacer
DottedValues ==
    { <<"1", ".", "2">>, <<"1", ".", "2", ".", "3">>,
      <<"1", ".">> \o dotReplacer \o <<"2">> }

\* paths with a dotted filter value, at the end and before a further step
DottedPaths ==
    {Filter(fA, fK, v) : v \in DottedValues}
        \cup {Filter(fA, fK, v) \o <<".", "b">> : v \in DottedValues}

\* segments with brackets that are not NAME[KEY=VALUE]: a bracket that is
\* not closed and a bracket without "="
MalformedSegments == { <<"a", "[", "k", "=", "v">>, <<"a", "[", "k", "]">> }

\* paths with such a segment, at the end and before a further step
MalformedPaths ==
    MalformedSegments \cup {g \o <<".", "b">> : g \in MalformedSegments}

MutatorPaths ==
    PlainPaths \cup FilterPaths \cup IndexPaths \cup BracketPaths
        \cup PatternPaths \cup DottedPaths \cup MalformedPaths

Replacements ==
    {Str(<<"r">>), IntN(7), MapN(fK :> Str(<<"v">>)), BoolN(FALSE),
     FloatN(<<"1", ".", "5">>), SeqN(<<Str(<<"r">>)>>), Str(<<"$", "r">>)}

IdleTransform ==
    /\ cfg = <<>>
    /\ docs = <<>>
    /\ docs0 = <<>>
    /\ ruleDocs = <<>>
    /\ pc = "idle"
    /\ err = NoErr
    /\ ri = 0 /\ di = 0 /\ pi = 0
    /\ repl = Nil
    /\ sel = <<>>
    /\ log = <<>>

MutatorInit ==
    /\ uDoc \in MutatorDocs
    /\ uPath \in MutatorPaths
    /\ uSteps = <<>>
    /\ uRepl \in Replacements
    /\ uOut = [n |-> uDoc, e |-> NoErr]
    /\ uPc = "in"
    /\ IdleTransform
    /\ IdleIso
    /\ IdlePlan
    /\ IdleEnc

\* substitute applies the path to the document
Mutate ==
    /\ uPc = "in"
    /\ uSteps' = pathSlice(uPath)
    /\ uOut' = applyFieldRef(uDoc, uPath, uRepl)
    /\ uPc' = "out"
    /\ UNCHANGED <<uDoc, uPath, uRepl>>
    /\ UNCHANGED <<transformVars, isoVars, planVars, encVars>>

MutatorNext == Mutate

MutatorSpec == MutatorInit /\ [][MutatorNext]_vars

(***************************************************************************)
(* isogen: GenerateBootstrapIso from verifyInputs on, and                  *)
(* createBootstrapIso.  The bundle, the document and the container are     *)
(* collaborators: each of their calls returns nil or an error of its own.  *)
(***************************************************************************)

builderConfigFileName ==
    <<"b", "u", "i", "l", "d", "e", "r", "-", "c", "o", "n", "f", ".", "y", "a",
      "m", "l">>

ErrMissingConfig == "ErrMissingConfig"

ErrInvalidConfig == "ErrInvalidConfig"

\* the errors of the collaborators
ErrNewContainer == "container.NewContainer error"

ErrGetCloudData == "cloudinit.GetCloudData error"

ErrAsYAML == "doc.AsYAML error"

ErrWriteFiles == "util.WriteFiles error"

ErrRunCommand == "builder.RunCommand error"

ErrRmContainer == "builder.RmContainer error"

ErrStat == "os.Stat error"

\* cfg.Container.Volume[index] of a volume with fewer parts
PanicVolume == "panic: index out of range (Container.Volume)"

\* filepath.Join of a directory and a file name
FilepathJoin(dir, name) == dir \o <<"/">> \o name

\* verifyInputs, lines 156-165, vols being the parts of the volume
verifyVolume(c, vols) ==
    IF Len(vols) = 1
    THEN [cfg |-> [c EXCEPT !.volume = vols[1] \o <<":">> \o vols[1]],
          e |-> NoErr]
    ELSE IF Len(vols) > 2 THEN [cfg |-> c, e |-> ErrInvalidConfig]
    ELSE [cfg |-> c, e |-> NoErr]

\* verifyInputs: the configuration after the call and the error
verifyInputs(c) ==
    IF c.volume = <<>> THEN [cfg |-> c, e |-> ErrMissingConfig]
    ELSE IF c.userDataFileName = <<>> \/ c.networkConfigFileName = <<>>
    THEN [cfg |-> c, e |-> ErrMissingConfig]
    ELSE verifyVolume(c, Split(c.volume, ":"))

\* getContainerCfg: the files to write, by their paths on the host volume
getContainerCfg(c, hostVol) ==
    (FilepathJoin(hostVol, builderConfigFileName) :> "builderCfgYaml")
        @@ (FilepathJoin(hostVol, c.networkConfigFileName) :> "netConf")
        @@ (FilepathJoin(hostVol, c.userDataFileName) :> "userData")

\* the configurations GenerateBootstrapIso is given
IsoVolumes ==
    { <<>>, <<"h">>, <<"h", ":", "c">>, <<"v", ":", "w">>,
      <<"h", ":", "c", ":", "x">> }

IsoConfigs ==
    [volume : IsoVolumes, userDataFileName : {<<>>, <<"u">>, <<"d">>},
     networkConfigFileName : {<<>>, <<"n">>}]

IsoInit ==
    /\ isoCfg \in IsoConfigs
    /\ isoDebug \in BOOLEAN
    /\ isoPc = "verify"
    /\ isoCalls = <<>>
    /\ isoFiles = <<>>
    /\ isoErr = "none"
    /\ genErr = "none"
    /\ IdleTransform
    /\ IdleMutator
    /\ IdlePlan
    /\ IdleEnc

\* a call createBootstrapIso has made and the error it returned
Call(op, e) == [op |-> op, e |-> e]

\* GenerateBootstrapIso returns e
generateReturns(e) == genErr' = e /\ isoPc' = "returned"

\* GenerateBootstrapIso, lines 123-125
VerifyInputs ==
    /\ isoPc = "verify"
    /\ isoCfg' = verifyInputs(isoCfg).cfg
    /\ IF verifyInputs(isoCfg).e # NoErr
       THEN generateReturns(verifyInputs(isoCfg).e)
       ELSE isoPc' = "container" /\ genErr' = genErr
    /\ UNCHANGED <<isoDebug, isoCalls, isoFiles, isoErr>>
    /\ UNCHANGED <<transformVars, mutatorVars, planVars, encVars>>

\* GenerateBootstrapIso, lines 127-133
NewContainer ==
    /\ isoPc = "container"
    /\ \E e \in {NoErr, ErrNewContainer} :
           IF e # NoErr THEN generateReturns(e)
           ELSE isoPc' = "cloud" /\ genErr' = genErr
    /\ UNCHANGED <<isoCfg, isoDebug, isoCalls, isoFiles, isoErr>>
    /\ UNCHANGED <<transformVars, mutatorVars, planVars, encVars>>

\* createBootstrapIso returns e, and GenerateBootstrapIso, lines 135-138,
\* returns it when it is an error
isoReturns(e) ==
    /\ isoErr' = e
    /\ IF e # NoErr THEN generateReturns(e)
       ELSE isoPc' = "artifacts" /\ genErr' = genErr

\* a step of createBootstrapIso other than the last has returned e
stepped(op, e, next) ==
    /\ isoCalls' = Append(isoCalls, Call(op, e))
    /\ IF e # NoErr THEN isoReturns(e)
       ELSE isoPc' = next /\ UNCHANGED <<isoErr, genErr>>

\* createBootstrapIso, lines 197-202: the container part of the volume is
\* taken and the cloud-init data are made
GetCloudData ==
    /\ isoPc = "cloud"
    /\ IF Len(Split(isoCfg.volume, ":")) < 2
       THEN /\ isoPc' = "crashed" /\ isoErr' = PanicVolume
            /\ UNCHANGED <<isoCalls, genErr>>
       ELSE \E e \in {NoErr, ErrGetCloudData} : stepped("GetCloudData", e, "yaml")
    /\ UNCHANGED <<isoCfg, isoDebug, isoFiles>>
    /\ UNCHANGED <<transformVars, mutatorVars, planVars, encVars>>

\* createBootstrapIso, lines 204-207
AsYAML ==
    /\ isoPc = "yaml"
    /\ \E e \in {NoErr, ErrAsYAML} : stepped("AsYAML", e, "write")
    /\ UNCHANGED <<isoCfg, isoDebug, isoFiles>>
    /\ UNCHANGED <<transformVars, mutatorVars, planVars, encVars>>

\* createBootstrapIso, lines 209-212
WriteFiles ==
    /\ isoPc = "write"
    /\ \E e \in {NoErr, ErrWriteFiles} :
           /\ stepped("WriteFiles", e, "run")
           /\ isoFiles' = IF e = NoErr
                          THEN getContainerCfg(isoCfg, Split(isoCfg.volume, ":")[1])
                          ELSE isoFiles
    /\ UNCHANGED <<isoCfg, isoDebug>>
    /\ UNCHANGED <<transformVars, mutatorVars, planVars, encVars>>

\* ranCommand with the container removed whatever the debug flag is
ranCommandRemoves(e) ==
    /\ isoCalls' = Append(isoCalls, Call("RunCommand", e))
    /\ IF e # NoErr THEN isoReturns(e)
       ELSE isoPc' = "remove" /\ UNCHANGED <<isoErr, genErr>>

\* createBootstrapIso, lines 217-241, e being the result of RunCommand
ranCommand(e) ==
    /\ isoCalls' = Append(isoCalls, Call("RunCommand", e))
    /\ IF e # NoErr THEN isoReturns(e)
       ELSE IF ~isoDebug THEN isoPc' = "remove" /\ UNCHANGED <<isoErr, genErr>>
       ELSE isoReturns(NoErr)

\* createBootstrapIso, lines 214-232 and 240-241
RunCommand ==
    /\ isoPc = "run"
    /\ \E e \in {NoErr, ErrRunCommand} : ranCommand(e)
    /\ UNCHANGED <<isoCfg, isoDebug, isoFiles>>
    /\ UNCHANGED <<transformVars, mutatorVars, planVars, encVars>>

\* createBootstrapIso, lines 235-238
RmContainer ==
    /\ isoPc = "remove"
    /\ \E e \in {NoErr, ErrRmContainer} :
           /\ isoCalls' = Append(isoCalls, Call("RmContainer", e))
           /\ isoReturns(e)
    /\ UNCHANGED <<isoCfg, isoDebug, isoFiles>>
    /\ UNCHANGED <<transformVars, mutatorVars, planVars, encVars>>

\* GenerateBootstrapIso, lines 139-140, and verifyArtifacts
VerifyArtifacts ==
    /\ isoPc = "artifacts"
    /\ \E e \in {NoErr, ErrStat} : generateReturns(e)
    /\ UNCHANGED <<isoCfg, isoDebug, isoCalls, isoFiles, isoErr>>
    /\ UNCHANGED <<transformVars, mutatorVars, planVars, encVars>>

IsoNext ==
    \/ VerifyInputs \/ NewContainer \/ GetCloudData \/ AsYAML \/ WriteFiles
    \/ RunCommand \/ RmContainer \/ VerifyArtifacts

IsoSpec == IsoInit /\ [][IsoNext]_vars

(***************************************************************************)
(* plan.Run and the phase.Run it calls for each step.  The phase client,   *)
(* the executor factory and the event processor are collaborators: each of *)
(* their calls returns nil or an error of its own.                         *)
(***************************************************************************)

\* the largest number of steps in a plan
MaxPhases == 3

\* the names of the steps; a plan may name a phase more than once
PhaseNames == {"a", "b"}

PhasePlans == SeqsUpTo(PhaseNames, MaxPhases)

\* the error of p.phaseClient.PhaseByID
ErrPhaseByID == "PhaseByID error"

\* the error of p.Executor()
ErrExecutor == "Executor error"

\* the error of p.processor.Process
ErrProcess == "Process error"

PlanInit ==
    /\ planPhases \in PhasePlans
    /\ planPc = "run"
    /\ planStep = 0
    /\ planErr = "none"
    /\ planCalls = <<>>
    /\ planGo = {}
    /\ IdleTransform
    /\ IdleMutator
    /\ IdleIso
    /\ IdleEnc

\* a call made for step i of the plan and the error it returned
PlanCall(op, i, e) == [op |-> op, step |-> i, name |-> planPhases[i], e |-> e]

\* plan.Run returns e
planReturns(e) ==
    /\ planPc' = "returned"
    /\ planErr' = e
    /\ UNCHANGED planStep

\* the range loop of plan.Run goes to the next step, and plan.Run returns
\* nil after the last one
nextStep ==
    IF planStep < Len(planPhases)
    THEN planPc' = "lookup" /\ planStep' = planStep + 1 /\ UNCHANGED planErr
    ELSE planReturns(NoErr)

\* plan.Run is called
PlanRun ==
    /\ planPc = "run"
    /\ nextStep
    /\ UNCHANGED <<planPhases, planCalls, planGo>>
    /\ UNCHANGED <<transformVars, mutatorVars, isoVars, encVars>>

\* plan.Run: the phase of the step is looked up; an error is returned
lookedUp(e) ==
    /\ planCalls' = Append(planCalls, PlanCall("PhaseByID", planStep, e))
    /\ IF e # NoErr THEN planReturns(e)
       ELSE planPc' = "executor" /\ UNCHANGED <<planStep, planErr>>

PhaseByID ==
    /\ planPc = "lookup"
    /\ \E e \in {NoErr, ErrPhaseByID} : lookedUp(e)
    /\ UNCHANGED <<planPhases, planGo>>
    /\ UNCHANGED <<transformVars, mutatorVars, isoVars, encVars>>

\* phase.Run up to the start of the goroutine: an error of p.Executor() is
\* returned after the deferred p.processor.Close(), and plan.Run returns it
executorBuilt(e) ==
    IF e # NoErr
    THEN /\ planCalls' = planCalls \o <<PlanCall("Executor", planStep, e),
                                        PlanCall("Close", planStep, NoErr)>>
         /\ planReturns(e)
         /\ UNCHANGED planGo
    ELSE /\ planCalls' = Append(planCalls, PlanCall("Executor", planStep, e))
         /\ planGo' = planGo \cup {planStep}
         /\ planPc' = "process"
         /\ UNCHANGED <<planStep, planErr>>

Executor ==
    /\ planPc = "executor"
    /\ \E e \in {NoErr, ErrExecutor} : executorBuilt(e)
    /\ UNCHANGED planPhases
    /\ UNCHANGED <<transformVars, mutatorVars, isoVars, encVars>>

\* processed with the error of phase.Run dropped by plan.Run
processedGoesOn(e) ==
    /\ planCalls' = planCalls \o <<PlanCall("Process", planStep, e),
                                   PlanCall("Close", planStep, NoErr)>>
    /\ nextStep

\* phase.Run returns what p.processor.Process returned, after the deferred
\* p.processor.Close(); plan.Run returns an error and goes on after nil
processed(e) ==
    /\ planCalls' = planCalls \o <<PlanCall("Process", planStep, e),
                                   PlanCall("Close", planStep, NoErr)>>
    /\ IF e # NoErr THEN planReturns(e) ELSE nextStep

Process ==
    /\ planPc = "process"
    /\ \E e \in {NoErr, ErrProcess} : processed(e)
    /\ UNCHANGED <<planPhases, planGo>>
    /\ UNCHANGED <<transformVars, mutatorVars, isoVars, encVars>>

\* the goroutine of phase.Run: executor.Run returns; phase.Run does not
\* wait for it
ExecutorRun ==
    /\ \E i \in planGo : planGo' = planGo \ {i}
    /\ UNCHANGED <<planPhases, planPc, planStep, planErr, planCalls>>
    /\ UNCHANGED <<transformVars, mutatorVars, isoVars, encVars>>

PlanNext == PlanRun \/ PhaseByID \/ Executor \/ Process \/ ExecutorRun

PlanSpec == PlanInit /\ [][PlanNext]_vars

(***************************************************************************)
(* EncryptionConfigOptions.Validate and checkExists.  os.Stat succeeds on  *)
(* the paths of encFiles and fails on every other path.                    *)
(***************************************************************************)

\* an error value of package config; flag and path are the fields of
\* ErrMissingFlag and ErrCheckFile
EncError(kind, flagName, path) == [kind |-> kind, flag |-> flagName, path |-> path]

EncNil == EncError("nil", "", <<>>)

ErrMissingEncryptionConfigName == EncError("ErrMissingEncryptionConfigName", "", <<>>)

ErrMutuallyExclusiveEncryptionConfigType ==
    EncError("ErrMutuallyExclusiveEncryptionConfigType", "", <<>>)

ErrInvalidEncryptionKeyPath == EncError("ErrInvalidEncryptionKeyPath", "", <<>>)

ErrInvalidEncryptionKey == EncError("ErrInvalidEncryptionKey", "", <<>>)

ErrMissingFlag(flagName) == EncError("ErrMissingFlag", flagName, <<>>)

ErrCheckFile(flagName, path) == EncError("ErrCheckFile", flagName, path)

backedByFileSystem(o) == o.EncryptionKeyPath # <<>> \/ o.DecryptionKeyPath # <<>>

backedByAPIServer(o) == o.KeySecretName # <<>> \/ o.KeySecretNamespace # <<>>

checkExists(flagName, path, files) ==
    IF path = <<>> THEN ErrMissingFlag(flagName)
    ELSE IF path \notin files THEN ErrCheckFile(flagName, path)
    ELSE EncNil

\* Validate, lines 231-239: both calls of checkExists are made with
\* o.EncryptionKeyPath
validateFiles(o, files) ==
    IF ~backedByFileSystem(o) THEN EncNil
    ELSE IF checkExists("encryption-key-path", o.EncryptionKeyPath, files) # EncNil
    THEN checkExists("encryption-key-path", o.EncryptionKeyPath, files)
    ELSE checkExists("decryption-key-path", o.EncryptionKeyPath, files)

\* Validate, lines 213-241: the first case of the switch that is true is
\* taken and no other
validate(o, files) ==
    IF o.Name = <<>> THEN ErrMissingEncryptionConfigName
    ELSE IF backedByFileSystem(o) = backedByAPIServer(o)
    THEN ErrMutuallyExclusiveEncryptionConfigType
    ELSE IF backedByFileSystem(o)
            /\ (o.EncryptionKeyPath = <<>> \/ o.DecryptionKeyPath = <<>>)
    THEN ErrInvalidEncryptionKeyPath
    ELSE IF ~backedByFileSystem(o) /\ backedByAPIServer(o)
            /\ (o.KeySecretName = <<>> \/ o.KeySecretNamespace = <<>>)
    THEN ErrInvalidEncryptionKey
    ELSE validateFiles(o, files)

\* the names: none or one
EncNames == { <<>>, <<"n">> }

\* the key paths: none, or one of two paths
EncPaths == { <<>>, <<"e">>, <<"d">> }

EncOptions ==
    [Name : EncNames, EncryptionKeyPath : EncPaths, DecryptionKeyPath : EncPaths,
     KeySecretName : EncNames, KeySecretNamespace : EncNames]

EncInit ==
    /\ encO \in EncOptions
    /\ encFiles \in SUBSET (EncPaths \ {<<>>})
    /\ encPc = "in"
    /\ encErr = EncError("none", "", <<>>)
    /\ IdleTransform
    /\ IdleMutator
    /\ IdleIso
    /\ IdlePlan

\* Validate is called on the options
Validate ==
    /\ encPc = "in"
    /\ encErr' = validate(encO, encFiles)
    /\ encPc' = "out"
    /\ UNCHANGED <<encO, encFiles>>
    /\ UNCHANGED <<transformVars, mutatorVars, isoVars, planVars>>

EncNext == Validate

EncSpec == EncInit /\ [][EncNext]_vars

(***************************************************************************)
(* Claims about New and Transform, checked under Spec                      *)
(***************************************************************************)

Last(q) == q[Len(q)]

\* Transform has been called and rule ri is the rule it is at or ended in
InRule == ri \in 1..Len(cfg) /\ Len(log) > 0 /\ Last(log).rule = ri

\* a rule New has to reject
Malformed(r) ==
    \/ r.source = NilPtr
    \/ r.target = NilPtr
    \/ (r.source.objref # NilPtr /\ r.source.value # <<>>)

\* C1: once New has returned, a rule set with at least one rule that has no
\* source, no target, or a source with both an object reference and a
\* literal has been rejected with ErrBadConfiguration, no plugin exists
\* (Transform cannot be called), and no document has been touched.
C1_RejectsMalformed ==
    (pc # "new" /\ \E i \in 1..Len(cfg) : Malformed(cfg[i]))
        => /\ pc = "rejected"
           /\ err = ErrBadConfiguration
           /\ docs = docs0
           /\ log = <<>>

\* a two-rule set whose first rule is well-formed and whose second rule
\* sets both an object reference and a literal has been rejected
C1_Witness ==
    /\ pc = "rejected"
    /\ Len(cfg) = 2
    /\ ~Malformed(cfg[1])
    /\ cfg[2].source # NilPtr /\ cfg[2].target # NilPtr
    /\ cfg[2].source.objref # NilPtr /\ cfg[2].source.value # <<>>

\* C2: every rule of an accepted rule set has exactly one of the object
\* reference and the literal value set.
C2_ExactlyOneSource ==
    pc \notin {"new", "rejected"}
        => \A i \in 1..Len(cfg) :
               (cfg[i].source.objref # NilPtr) # (cfg[i].source.value # <<>>)

\* C3: when the source selector of the rule Transform is at matches no
\* document, Transform has ended with ErrSourceNotFound, when it matches
\* more than one, with ErrMultipleResources, and in both cases the
\* collection is as it was when the rule was started, whatever the target
\* of the rule is.
C3_SourceErrors ==
    (InRule /\ pc # "resolve" /\ cfg[ri].source.objref # NilPtr)
        => LET n == Len(Select(docs0, cfg[ri].source.objref))
           IN  /\ n = 0 => (pc = "done" /\ err = ErrSourceNotFound
                            /\ docs = ruleDocs)
               /\ n > 1 => (pc = "done" /\ err = ErrMultipleResources
                            /\ docs = ruleDocs)

\* the second rule of a rule set has ended Transform with
\* ErrMultipleResources although its target selector matches a document,
\* after the first rule has changed the collection
C3_Witness ==
    /\ pc = "done" /\ err = ErrMultipleResources
    /\ ri = 2 /\ docs # docs0 /\ docs = ruleDocs
    /\ Len(Select(docs, cfg[ri].source.objref)) = 2
    /\ Len(Select(docs, cfg[ri].target.objref)) > 0

\* C4: when the target selector of a rule whose source has been resolved
\* matches no document, Transform has ended with ErrTargetNotFound and the
\* collection is as it was when the rule was started.
C4_TargetNotFound ==
    (InRule /\ pc \notin {"resolve", "select"} /\ Last(log).op # "resolve"
        /\ Len(Select(docs0, cfg[ri].target.objref)) = 0)
        => pc = "done" /\ err = ErrTargetNotFound /\ docs = ruleDocs

\* the second rule has ended Transform with ErrTargetNotFound after the
\* first rule has changed the collection
C4_Witness ==
    /\ pc = "done" /\ err = ErrTargetNotFound
    /\ ri = 2 /\ docs # docs0 /\ docs = ruleDocs
    /\ Len(Select(docs, cfg[ri].target.objref)) = 0

\* C5: Transform is fail-fast without rollback.  A step with an error is
\* the last step Transform makes, and its error is the one Transform ends
\* with; without such a step Transform has no error; and the collection is
\* at every moment the one the last step has left, so what was written
\* before a failure is still there when Transform has returned.
C5_FailFastNoRollback ==
    /\ \A i \in 1..Len(log) :
           log[i].e # NoErr
               => i = Len(log) /\ pc \in {"done", "crashed"} /\ err = log[i].e
    /\ (pc = "done" /\ err # NoErr) => (Len(log) > 0 /\ Last(log).e = err)
    /\ Len(log) > 0 => docs = Last(log).after
    /\ (pc = "done" /\ err = NoErr /\ Len(cfg) > 0)
           => (ri = Len(cfg) /\ Last(log).op # "resolve")

\* Transform has returned an error of the second document of the first
\* rule, the write to the first document is still in the collection, and a
\* second rule has not been started
C5_Witness ==
    /\ pc = "done" /\ err = ErrTypeMismatch
    /\ Len(cfg) = 2 /\ ri = 1 /\ di = 2
    /\ docs # docs0
    /\ \E i \in 1..Len(log) :
           /\ log[i].op = "apply" /\ log[i].e = NoErr
           /\ docs[log[i].doc] = log[i].after[log[i].doc]
           /\ docs[log[i].doc] # docs0[log[i].doc]

\* the apply steps the history holds for rule r
AppliedTo(r, d, p) ==
    \E i \in 1..Len(log) :
        /\ log[i].op = "apply" /\ log[i].rule = r
        /\ log[i].doc = d /\ log[i].path = p

\* a path has failed on the first document the target selector of the rule
\* matches; it is path pi
FailedOnFirst ==
    /\ pc = "done" /\ InRule
    /\ Last(log).op = "apply" /\ Last(log).e # NoErr
    /\ Last(log).doc = sel[1] /\ Last(log).path = pi

\* C6 as stated: field paths outside, documents inside, so that when path k
\* fails on the first matched document the paths before k have been
\* applied to every matched document.
C6_PathsOuter ==
    FailedOnFirst
        => \A j \in 1..(pi - 1) : \A x \in 1..Len(sel) : AppliedTo(ri, sel[x], j)

\* the position of document d in the selection q
RECURSIVE PosIn(_, _)
PosIn(q, d) == IF Len(q) = 0 \/ Head(q) = d THEN 1 ELSE 1 + PosIn(Tail(q), d)

\* step b is the step Transform makes after step a
Follows(a, b) ==
    LET paths  == cfg[a.rule].target.fieldrefs
        chosen == Select(docs0, cfg[a.rule].target.objref)
    IN  CASE a.op = "resolve" -> b.op = "select" /\ b.rule = a.rule
          [] a.op = "select" ->
                \/ /\ b.op = "apply" /\ b.rule = a.rule
                   /\ b.doc = chosen[1] /\ b.path = 1
                \/ /\ Len(paths) = 0
                   /\ b.op = "resolve" /\ b.rule = a.rule + 1
          [] OTHER ->
                \/ /\ b.op = "apply" /\ b.rule = a.rule
                   /\ b.doc = a.doc /\ b.path = a.path + 1
                \/ /\ b.op = "apply" /\ b.rule = a.rule
                   /\ a.path = Len(paths) /\ b.path = 1
                   /\ PosIn(chosen, b.doc) = PosIn(chosen, a.doc) + 1
                \/ /\ b.op = "resolve" /\ b.rule = a.rule + 1
                   /\ a.path = Len(paths) /\ a.doc = Last(chosen)

\* C6, amended: rules in input order, one source resolution per rule, and
\* within a rule the matched documents outside and the field paths inside;
\* so when path k fails on the first matched document, the paths before k
\* have been applied to that document and the rule has touched no other.
C6_DocumentsOuter ==
    /\ Len(log) > 0 => (log[1].op = "resolve" /\ log[1].rule = 1)
    /\ \A i \in 1..(Len(log) - 1) : Follows(log[i], log[i + 1])
    /\ FailedOnFirst
           => /\ \A j \in 1..(pi - 1) : AppliedTo(ri, sel[1], j)
              /\ \A x \in 2..Len(sel) :
                     /\ docs[sel[x]] = ruleDocs[sel[x]]
                     /\ \A j \in 1..Len(cfg[ri].target.fieldrefs) :
                            ~AppliedTo(ri, sel[x], j)

\* the second path of a rule has failed on the first of two matched
\* documents: the first path is in the first document and not in the second
C6_Witness ==
    /\ FailedOnFirst /\ pi = 2
    /\ Len(sel) = 2
    /\ AppliedTo(ri, sel[1], 1)
    /\ docs[sel[1]] # ruleDocs[sel[1]]
    /\ docs[sel[2]] = ruleDocs[sel[2]]

(***************************************************************************)
(* Claims about the tree mutator, checked under MutatorSpec                *)
(***************************************************************************)

\* the steps of a plain dotted path
Steps(p) == Split(p, ".")

\* walking the steps from node, a key of a map is absent before the last step
RECURSIVE Missing(_, _)
Missing(node, steps) ==
    /\ Len(steps) > 1
    /\ node.t = "map"
    /\ \/ Head(steps) \notin DOMAIN node.m
       \/ Missing(node.m[Head(steps)], Tail(steps))

\* every key of the map old is a key of the map new, with the same value or
\* with a map that extends it in the same way
RECURSIVE Extends(_, _)
Extends(old, new) ==
    /\ old.t = "map" /\ new.t = "map"
    /\ \A key \in DOMAIN old.m :
           /\ key \in DOMAIN new.m
           /\ new.m[key] = old.m[key] \/ Extends(old.m[key], new.m[key])

\* C7: a plain dotted path applied to a document in which a key before the
\* last step is absent succeeds, the path then leads through maps to the
\* replacement value, and every key the document had is kept with its value.
C7_AutoVivification ==
    (uPc = "out" /\ uPath \in PlainPaths /\ Missing(uDoc, Steps(uPath)))
        => /\ uOut.e = NoErr
           /\ getField(uOut.n, Steps(uPath)) = [v |-> uRepl, e |-> NoErr]
           /\ Extends(uDoc, uOut.n)

\* d.b.e applied to a document without d: d and d.b have been created
C7_Witness ==
    /\ uPc = "out" /\ uPath = <<"d", ".", "b", ".", "e">>
    /\ <<"d">> \notin DOMAIN uDoc.m /\ fA \in DOMAIN uDoc.m
    /\ uOut.e = NoErr
    /\ uOut.n.m[<<"d">>] = MapN(fB :> MapN(fE :> uRepl))
    /\ uOut.n.m[fA] = uDoc.m[fA]

\* the key a holds a list of maps, none of them with k equal to value
NoElementMatches(value) ==
    /\ fA \in DOMAIN uDoc.m
    /\ uDoc.m[fA].t = "seq"
    /\ \A i \in 1..Len(uDoc.m[fA].s) :
           /\ uDoc.m[fA].s[i].t = "map"
           /\ ~(fK \in DOMAIN uDoc.m[fA].s[i].m
                /\ uDoc.m[fA].s[i].m[fK] = Str(value))

\* C8: the filter step a[k=value], last step of the path or followed by
\* another step, applied to a list of maps without an element whose k is
\* value, fails with ErrMapNotFound and leaves the document as it was.
C8_FilterNotFound ==
    \A value \in FilterValues : \A more \in {<<>>, <<".", "b">>} :
        (uPc = "out" /\ uPath = Filter(fA, fK, value) \o more
            /\ NoElementMatches(value))
            => uOut.e = ErrMapNotFound /\ uOut.n = uDoc

\* the filter is the last step and the list has two maps
C8_Witness ==
    /\ uPc = "out" /\ uPath = Filter(fA, fK, <<"z">>)
    /\ NoElementMatches(<<"z">>)
    /\ Len(uDoc.m[fA].s) = 2
    /\ uOut.e = ErrMapNotFound

\* the key a holds a list
ListAtA == fA \in DOMAIN uDoc.m /\ uDoc.m[fA].t = "seq"

\* C9: on a list of length n the index step i is accepted only when
\* 0 <= i < n; every other i, i = n included, is ErrIndexOutOfBound and the
\* list is left as it was.
C9_IndexWithinBounds ==
    \A i \in (-1)..MaxIndex :
        (uPc = "out" /\ uPath = fA \o Dot \o Itoa(i) /\ ListAtA)
            => IF 0 <= i /\ i < Len(uDoc.m[fA].s)
               THEN uOut.e = NoErr
               ELSE uOut.e = ErrIndexOutOfBound /\ uOut.n = uDoc

\* the document with element i (from 0) of the list at a replaced
WithElement(i) ==
    MapN([uDoc.m EXCEPT ![fA] = SeqN([uDoc.m[fA].s EXCEPT ![i + 1] = uRepl])])

\* C10 as stated: the last segment a[i] addresses element i of the list at
\* a; with more than i elements that element is overwritten and nothing
\* else changes, with i or fewer the application is ErrIndexOutOfBound.
C10_BracketIndex ==
    \A i \in 0..MaxIndex :
        (uPc = "out" /\ uPath = fA \o <<"[">> \o Itoa(i) \o <<"]">> /\ ListAtA)
            => IF i < Len(uDoc.m[fA].s)
               THEN uOut.e = NoErr /\ uOut.n = WithElement(i)
               ELSE uOut.e = ErrIndexOutOfBound

\* C10, amended: the last segment a[i] is the literal key "a[i]": the
\* application succeeds whatever the length of the list at a, the key is
\* created in the enclosing map with the replacement value, and everything
\* else, the list at a included, is as it was.
C10_BracketIsLiteralKey ==
    /\ \A i \in 0..MaxIndex :
           LET key == fA \o <<"[">> \o Itoa(i) \o <<"]">>
           IN  (uPc = "out" /\ uPath = key)
                   => uOut.e = NoErr /\ uOut.n = MapN((key :> uRepl) @@ uDoc.m)
    /\ (uPc = "out" /\ uPath = <<"a", ".", "b", "[", "0", "]">>
           /\ fA \in DOMAIN uDoc.m /\ uDoc.m[fA].t = "map")
           => /\ uOut.e = NoErr
              /\ uOut.n = MapN([uDoc.m EXCEPT ![fA] =
                                   MapN((<<"b", "[", "0", "]">> :> uRepl) @@ @.m)])

\* a[2] applied to a list of three elements: the list is as it was
C10_Witness ==
    /\ uPc = "out" /\ uPath = <<"a", "[", "2", "]">>
    /\ ListAtA /\ Len(uDoc.m[fA].s) = 3
    /\ uOut.e = NoErr
    /\ uOut.n.m[fA] = uDoc.m[fA]
    /\ uOut.n.m[<<"a", "[", "2", "]">>] = uRepl

(***************************************************************************)
(* Claims about substring patterns, checked under MutatorSpec              *)
(***************************************************************************)

\* the target path NAME%PATTERN%
PatternOn(name, pat) == name \o <<"%">> \o pat \o <<"%">>

\* the substring patterns of the paths that address the key a
PatternsOnA == {<<"s">>, <<"\\", "d", "+">>, <<"z">>}

\* the string form of a string or an integer
Stringified(r) == IF r.t = "int" THEN Itoa(r.i) ELSE r.v

\* s from position i on with every match of the pattern replaced by the
\* string r itself, every other character kept
RECURSIVE SubstitutedFrom(_, _, _, _)
SubstitutedFrom(toks, s, i, r) ==
    IF i > Len(s) THEN <<>>
    ELSE IF reEnd(toks, s, i) = 0
    THEN <<s[i]>> \o SubstitutedFrom(toks, s, i + 1, r)
    ELSE r \o SubstitutedFrom(toks, s, reEnd(toks, s, i), r)

\* the key a holds a string in which the pattern matches
MatchingStringAtA(pat) ==
    /\ fA \in DOMAIN uDoc.m
    /\ uDoc.m[fA].t = "str"
    /\ MatchString(reCompile(pat), uDoc.m[fA].v)

\* C11: a%PATTERN% applied to a document whose key a holds a string with at
\* least one match of PATTERN, the replacement being a string or an integer,
\* succeeds, and the new value of a is the old string with every match
\* replaced by the string form of the replacement and every other character
\* kept; nothing else in the document changes.
C11_ReplacesEveryOccurrence ==
    \A pat \in PatternsOnA :
        (uPc = "out" /\ uPath = PatternOn(fA, pat) /\ MatchingStringAtA(pat)
            /\ uRepl.t \in {"str", "int"})
            => /\ uOut.e = NoErr
               /\ uOut.n = MapN([uDoc.m EXCEPT ![fA] =
                                    Str(SubstitutedFrom(reCompile(pat), @.v, 1,
                                                        Stringified(uRepl)))])

\* the key a is in the document
HasA == fA \in DOMAIN uDoc.m

\* the key a holds a string in which the pattern matches nowhere
UnmatchedStringAtA(pat) ==
    /\ HasA
    /\ uDoc.m[fA].t = "str"
    /\ ~MatchString(reCompile(pat), uDoc.m[fA].v)

\* C12, as stated: a%PATTERN% applied to a document whose key a holds a
\* string without a match of PATTERN, or a value that is not a string, fails
\* with ErrPatternSubstring and leaves the document as it was.
C12_NotStringIsPatternError ==
    \A pat \in PatternsOnA :
        (uPc = "out" /\ uPath = PatternOn(fA, pat) /\ HasA
            /\ (UnmatchedStringAtA(pat) \/ uDoc.m[fA].t # "str"))
            => uOut.e = ErrPatternSubstring /\ uOut.n = uDoc

\* C12, amended: a%PATTERN% applied to a document whose key a holds a string
\* without a match of PATTERN, or a number, a boolean, a mapping or a
\* sequence, fails with ErrPatternSubstring; applied to a key a that holds
\* null it fails with ErrTypeMismatch; in every case the document is left as
\* it was.
C12_PatternErrorOrNull ==
    \A pat \in PatternsOnA :
        (uPc = "out" /\ uPath = PatternOn(fA, pat) /\ HasA
            /\ (UnmatchedStringAtA(pat) \/ uDoc.m[fA].t # "str"))
            => /\ uOut.e = IF uDoc.m[fA].t = "nil" THEN ErrTypeMismatch
                           ELSE ErrPatternSubstring
               /\ uOut.n = uDoc

\* a%z% applied to the string "s", with a string replacement: the pattern is
\* not found and a is still "s"
C12_Witness ==
    /\ uPc = "out" /\ uPath = PatternOn(fA, <<"z">>)
    /\ HasA /\ uDoc.m[fA] = Str(<<"s">>)
    /\ uRepl = Str(<<"r">>)
    /\ uOut.e = ErrPatternSubstring
    /\ uOut.n = uDoc

\* the string form fmt.Sprint gives a scalar
Sprint(r) ==
    CASE r.t = "int"   -> Itoa(r.i)
      [] r.t = "str"   -> r.v
      [] r.t = "float" -> r.f
      [] r.t = "bool"  -> IF r.b THEN <<"t", "r", "u", "e">>
                          ELSE <<"f", "a", "l", "s", "e">>

\* the document with the matches of the pattern in the string at a replaced
\* by the string r
SubstitutedAtA(pat, r) ==
    MapN([uDoc.m EXCEPT ![fA] =
             Str(SubstitutedFrom(reCompile(pat), @.v, 1, r))])

C14_DotRoundTrip ==
    \A v \in DottedValues :
        (uPc = "out" /\ uPath = Filter(fA, fK, v) \o <<".", "b">>)
            => /\ uSteps = <<Filter(fA, fK, v), fB>>
               /\ getFirstPathSegment(uSteps[1]).value = v

(***************************************************************************)
(* Further claims about New and Transform, checked under Spec              *)
(***************************************************************************)

\* C15: a call of Transform ends, by completing or by returning an error; it
\* never runs into a recursion without end.
C15_TransformTerminates == ~(pc = "crashed" /\ err = FatalStack)

\* rule i of the rule set has a literal as its source
Literal(i) == cfg[i].source.value # <<>>

\* C16: in a rule set New has accepted, a rule with a literal has no object
\* reference, so Transform makes no lookup for it; the resolution of such a
\* rule never fails, the value it yields is the literal, and Transform never
\* ends in such a rule with ErrSourceNotFound or ErrMultipleResources,
\* whatever the collection holds.
C16_LiteralSource ==
    /\ pc \notin {"new", "rejected"}
           => \A i \in 1..Len(cfg) : Literal(i) => cfg[i].source.objref = NilPtr
    /\ \A k \in 1..Len(log) :
           (log[k].op = "resolve" /\ Literal(log[k].rule)) => log[k].e = NoErr
    /\ (InRule /\ pc \in {"select", "apply"} /\ Literal(ri))
           => repl = Str(cfg[ri].source.value)
    /\ (InRule /\ Literal(ri))
           => err \notin {ErrSourceNotFound, ErrMultipleResources}

\* a rule with a literal has been resolved to the literal on a collection
\* that holds no document of kind Cluster, and its first target path has
\* been written
C16_Witness ==
    /\ InRule /\ Literal(ri)
    /\ Last(log).op = "apply" /\ Last(log).e = NoErr
    /\ repl = Str(Lit)
    /\ Len(Select(docs0, Sel("Cluster", ""))) = 0
    /\ docs # docs0

(***************************************************************************)
(* Claims about createBootstrapIso, checked under IsoSpec                  *)
(***************************************************************************)

\* the steps of createBootstrapIso, in their order
IsoSteps == <<"GetCloudData", "AsYAML", "WriteFiles", "RunCommand", "RmContainer">>

\* createBootstrapIso has returned
IsoReturned == isoErr \notin {"none", PanicVolume}

\* RunCommand has been called and has succeeded
RunSucceeded == Len(isoCalls) >= 4 /\ isoCalls[4].e = NoErr

\* C17: the calls createBootstrapIso makes are a prefix of its five steps in
\* their order, no call follows a failed one, and the error of a failed
\* call is what the function returns; once it has returned, RmContainer has
\* been called exactly when RunCommand succeeded and debug is false, and
\* then its result is the result of the function; with debug true
\* RmContainer is never called and after a successful RunCommand the result
\* is nil.
C17_StepsInOrder ==
    /\ Len(isoCalls) <= Len(IsoSteps)
    /\ \A k \in 1..Len(isoCalls) : isoCalls[k].op = IsoSteps[k]
    /\ \A k \in 1..(Len(isoCalls) - 1) : isoCalls[k].e = NoErr
    /\ (Len(isoCalls) > 0 /\ Last(isoCalls).e # NoErr)
           => isoErr = Last(isoCalls).e
    /\ IsoReturned
           => /\ Len(isoCalls) = 5 <=> (RunSucceeded /\ ~isoDebug)
              /\ Len(isoCalls) = 5 => isoErr = isoCalls[5].e
              /\ isoErr = NoErr => Len(isoCalls) >= 4
    /\ isoDebug
           => /\ Len(isoCalls) <= 4
              /\ (IsoReturned /\ RunSucceeded) => isoErr = NoErr

\* with debug false every step has succeeded but the removal of the
\* container, and its error is what createBootstrapIso has returned
C17_Witness ==
    /\ ~isoDebug
    /\ Len(isoCalls) = 5
    /\ RunSucceeded
    /\ isoCalls[5] = Call("RmContainer", ErrRmContainer)
    /\ isoErr = ErrRmContainer

(***************************************************************************)
(* Further claims about the tree mutator, checked under MutatorSpec        *)
(***************************************************************************)

\* element i of the list at a is a map whose k is the string value
MatchesAt(i, value) ==
    /\ uDoc.m[fA].s[i].t = "map"
    /\ fK \in DOMAIN uDoc.m[fA].s[i].m
    /\ uDoc.m[fA].s[i].m[fK] = Str(value)

\* element i is the first match of the filter in a list whose elements
\* before i are maps
FirstMatchAt(i, value) ==
    /\ ListAtA
    /\ i \in 1..Len(uDoc.m[fA].s)
    /\ MatchesAt(i, value)
    /\ \A j \in 1..(i - 1) : uDoc.m[fA].s[j].t = "map" /\ ~MatchesAt(j, value)

C19_AssignsOverAnything ==
    (uPc = "out" /\ uPath = fA /\ HasA)
        => uOut.e = NoErr /\ uOut.n = MapN([uDoc.m EXCEPT ![fA] = uRepl])

\* C19, amended: the plain path a applied to a document in which a holds a
\* scalar, a mapping or a sequence succeeds and assigns the replacement to
\* a, the other keys being as they were; applied to a document in which a
\* is present with a null value it fails with ErrTypeMismatch and the
\* document is as it was.
C19_AssignsOverNonNull ==
    (uPc = "out" /\ uPath = fA /\ HasA)
        => IF uDoc.m[fA].t = "nil"
           THEN uOut.e = ErrTypeMismatch /\ uOut.n = uDoc
           ELSE uOut.e = NoErr /\ uOut.n = MapN([uDoc.m EXCEPT ![fA] = uRepl])

\* the path a applied to a document in which a holds a list of two
\* elements: a is the replacement and c is as it was
C19_Witness ==
    /\ uPc = "out" /\ uPath = fA
    /\ ListAtA /\ Len(uDoc.m[fA].s) = 2
    /\ uOut.e = NoErr
    /\ uOut.n.m[fA] = uRepl
    /\ uOut.n.m[fC] = uDoc.m[fC]

\* a node that is neither a mapping nor a sequence
ScalarOrNil(node) == node.t \notin {"map", "seq"}

\* C20: when the walk along the path comes to a scalar or to nil with a
\* step still to take, the application fails with ErrTypeMismatch and the
\* document is as it was.  The node is the value of a after a first step
\* that names a (plain or with a filter), the value of b in the mapping at a
\* on the path a.b.e, or element i of the list at a on the path a.i.b.
C20_LeafBeforeEnd ==
    /\ (uPc = "out" /\ HasA /\ ScalarOrNil(uDoc.m[fA])
           /\ Len(uSteps) >= 2 /\ getFirstPathSegment(uSteps[1]).field = fA)
           => uOut.e = ErrTypeMismatch /\ uOut.n = uDoc
    /\ (uPc = "out" /\ uPath = <<"a", ".", "b", ".", "e">>
           /\ HasA /\ uDoc.m[fA].t = "map" /\ fB \in DOMAIN uDoc.m[fA].m
           /\ ScalarOrNil(uDoc.m[fA].m[fB]))
           => uOut.e = ErrTypeMismatch /\ uOut.n = uDoc
    /\ \A i \in 0..(MaxSeqLen - 1) :
           (uPc = "out" /\ uPath = fA \o Dot \o Itoa(i) \o <<".", "b">>
               /\ ListAtA /\ i < Len(uDoc.m[fA].s)
               /\ ScalarOrNil(uDoc.m[fA].s[i + 1]))
               => uOut.e = ErrTypeMismatch /\ uOut.n = uDoc

\* the path a.b.e applied to a document in which a holds a string
C20_Witness ==
    /\ uPc = "out" /\ uPath = <<"a", ".", "b", ".", "e">>
    /\ HasA /\ uDoc.m[fA] = Str(<<"s">>)
    /\ uOut.e = ErrTypeMismatch
    /\ uOut.n = uDoc

(***************************************************************************)
(* Claims about malformed segments, sequences and filters, checked under   *)
(* MutatorSpec                                                             *)
(***************************************************************************)

\* the segment is read as a plain field name
ReadAsLiteral(g) ==
    getFirstPathSegment(g) =
        [field |-> g, key |-> <<>>, value |-> <<>>, isArray |-> FALSE]

\* C21, as stated: a malformed segment is kept as one step and read as a
\* literal field name, and the application of its path ends with
\* ErrTypeMismatch or ErrMapNotFound.
C21_MalformedSurfacesError ==
    \A g \in MalformedSegments :
        /\ (uPc = "out" /\ uPath = g)
               => /\ uSteps = <<g>> /\ ReadAsLiteral(g)
                  /\ uOut.e \in {ErrTypeMismatch, ErrMapNotFound}
        /\ (uPc = "out" /\ uPath = g \o <<".", "b">>)
               => /\ uSteps = <<g, fB>> /\ ReadAsLiteral(g)
                  /\ uOut.e \in {ErrTypeMismatch, ErrMapNotFound}

\* C21, amended: a malformed segment is kept as one step and read as a
\* literal field name; applied to a mapping without a key of that name the
\* path succeeds: the key is created, with the replacement value when the
\* segment is the last step and with the mapping {b: replacement} when the
\* step b follows, and everything else is as it was.
C21_MalformedIsLiteralKey ==
    \A g \in MalformedSegments :
        /\ (uPc = "out" /\ uPath = g)
               => /\ uSteps = <<g>> /\ ReadAsLiteral(g)
                  /\ uOut.e = NoErr
                  /\ uOut.n = MapN((g :> uRepl) @@ uDoc.m)
        /\ (uPc = "out" /\ uPath = g \o <<".", "b">>)
               => /\ uSteps = <<g, fB>> /\ ReadAsLiteral(g)
                  /\ uOut.e = NoErr
                  /\ uOut.n = MapN((g :> MapN(fB :> uRepl)) @@ uDoc.m)

\* the path a[k=v with its bracket not closed, applied to a document in
\* which a holds a list with an element whose k is v: the list is as it was
\* and the key "a[k=v" holds the replacement
C21_Witness ==
    /\ uPc = "out" /\ uPath = <<"a", "[", "k", "=", "v">>
    /\ ListAtA /\ Len(uDoc.m[fA].s) > 0
    /\ uDoc.m[fA].s[1] = MapN(fK :> Str(<<"v">>))
    /\ uOut.e = NoErr
    /\ uOut.n.m[fA] = uDoc.m[fA]
    /\ uOut.n.m[<<"a", "[", "k", "=", "v">>] = uRepl

\* the key a holds the mapping {b: list}
ListAtAB ==
    /\ HasA /\ uDoc.m[fA].t = "map"
    /\ fB \in DOMAIN uDoc.m[fA].m /\ uDoc.m[fA].m[fB].t = "seq"

\* the step after a names an element the list at a does not have: an index
\* from the length of the list on
MissingIndex(i) ==
    /\ uPath \in {fA \o Dot \o Itoa(i), fA \o Dot \o Itoa(i) \o <<".", "b">>}
    /\ ListAtA /\ i >= Len(uDoc.m[fA].s)

\* C22: whatever path is applied and however the application ends, a list
\* of the document that the path does not overwrite as a whole is a list of
\* the same length afterwards (the list at a for every path but a, the list
\* at a.b for every path but a and a.b); and a step that names an element
\* the list does not have, by an index or by a filter, ends in a failure and
\* leaves the document as it was.
C22_SequenceLengthKept ==
    /\ (uPc = "out" /\ ListAtA /\ uPath # fA)
           => /\ uOut.n.m[fA].t = "seq"
              /\ Len(uOut.n.m[fA].s) = Len(uDoc.m[fA].s)
    /\ (uPc = "out" /\ ListAtAB /\ uPath \notin {fA, <<"a", ".", "b">>})
           => /\ uOut.n.m[fA].t = "map" /\ fB \in DOMAIN uOut.n.m[fA].m
              /\ uOut.n.m[fA].m[fB].t = "seq"
              /\ Len(uOut.n.m[fA].m[fB].s) = Len(uDoc.m[fA].m[fB].s)
    /\ \A i \in 0..MaxIndex :
           (uPc = "out" /\ MissingIndex(i))
               => uOut.e # NoErr /\ uOut.n = uDoc
    /\ \A value \in FilterValues : \A more \in {<<>>, <<".", "b">>} :
           (uPc = "out" /\ uPath = Filter(fA, fK, value) \o more
               /\ NoElementMatches(value))
               => uOut.e # NoErr /\ uOut.n = uDoc

\* an index two past the end of a list of two elements is refused and the
\* list still has two elements
C22_Witness ==
    /\ uPc = "out" /\ uPath = fA \o Dot \o Itoa(3)
    /\ ListAtA /\ Len(uDoc.m[fA].s) = 2
    /\ uOut.e = ErrIndexOutOfBound
    /\ Len(uOut.n.m[fA].s) = 2

\* the filter a[k=value], as the last step or followed by the step b, is
\* applied to a list at a
FilterOnListAtA(value) ==
    /\ uPc = "out"
    /\ uPath \in {Filter(fA, fK, value), Filter(fA, fK, value) \o <<".", "b">>}
    /\ ListAtA

\* the elements of the list at a that match the filter
MatchesIn(value) == {i \in 1..Len(uDoc.m[fA].s) : MatchesAt(i, value)}

\* the elements of the list at a that are not mappings
NonMappingsIn == {i \in 1..Len(uDoc.m[fA].s) : uDoc.m[fA].s[i].t # "map"}

\* C23, as stated: when some element of the list matches the filter it is
\* selected and the application succeeds, even if another element is not a
\* mapping; ErrTypeMismatch is returned because of a non-mapping element
\* only when no element matches.
C23_MatchWinsOverNonMapping ==
    \A value \in FilterValues :
        FilterOnListAtA(value)
            => IF MatchesIn(value) # {} THEN uOut.e = NoErr
               ELSE IF NonMappingsIn # {} THEN uOut.e = ErrTypeMismatch
               ELSE uOut.e = ErrMapNotFound

\* C23, amended: the scan goes through the list in order and ends at the
\* first element that is not a mapping or that matches.  A non-mapping
\* element that comes before every match ends it with ErrTypeMismatch and
\* the document is as it was, also when a later element matches; a match
\* that comes before every non-mapping element is selected and the
\* application succeeds.
C23_FirstOfMatchAndNonMapping ==
    \A value \in FilterValues :
        FilterOnListAtA(value)
            => IF NonMappingsIn # {}
                   /\ \A i \in MatchesIn(value) : Min(NonMappingsIn) < i
               THEN uOut.e = ErrTypeMismatch /\ uOut.n = uDoc
               ELSE IF MatchesIn(value) # {} THEN uOut.e = NoErr
               ELSE uOut.e = ErrMapNotFound

\* a[k=v] applied to a list whose first element is a string and whose
\* second element is the mapping with k = v: ErrTypeMismatch, nothing written
C23_Witness ==
    /\ uPc = "out" /\ uPath = Filter(fA, fK, <<"v">>)
    /\ ListAtA /\ Len(uDoc.m[fA].s) = 2
    /\ uDoc.m[fA].s[1] = Str(<<"s">>)
    /\ MatchesAt(2, <<"v">>)
    /\ uOut.e = ErrTypeMismatch
    /\ uOut.n = uDoc

\* the key that the only step of the path names, without filter and pattern
TerminalKey == extractSubstringPattern(getFirstPathSegment(uSteps[1]).field).path

\* the path has one step, and the document has no key of that step's name
TerminalOnAbsentKey ==
    /\ uPc = "out"
    /\ Len(uSteps) = 1
    /\ TerminalKey \notin DOMAIN uDoc.m

\* the terminal step carries a filter or a substring pattern
TerminalDecorated ==
    \/ getFirstPathSegment(uSteps[1]).isArray
    \/ extractSubstringPattern(getFirstPathSegment(uSteps[1]).field).pattern # <<>>

\* C24, as stated: a key named by the terminal step and absent from the
\* mapping is not auto-created: it holds the resolved value when the
\* application succeeds and is still absent when it fails.
C24_TerminalKeyNotCreated ==
    TerminalOnAbsentKey
        => IF uOut.e = NoErr
           THEN uOut.n = MapN((TerminalKey :> uRepl) @@ uDoc.m)
           ELSE uOut.n = uDoc

\* C24, amended: an absent key is created as an empty mapping before the
\* step is looked at, terminal or not.  A plain terminal step overwrites it
\* with the resolved value; a terminal step with a filter or a substring
\* pattern fails and leaves the key in the mapping, holding the empty
\* mapping.
C24_TerminalKeyCreatedFirst ==
    TerminalOnAbsentKey
        => IF TerminalDecorated
           THEN /\ uOut.e \in {ErrTypeMismatch, ErrPatternSubstring}
                /\ uOut.n = MapN((TerminalKey :> EmptyMap) @@ uDoc.m)
           ELSE /\ uOut.e = NoErr
                /\ uOut.n = MapN((TerminalKey :> uRepl) @@ uDoc.m)

\* d%y% applied to a document without d: the application fails and d is
\* left in the document as an empty mapping
C24_Witness ==
    /\ uPc = "out"
    /\ uPath = <<"d", "%", "y", "%">>
    /\ <<"d">> \notin DOMAIN uDoc.m
    /\ uOut.e = ErrPatternSubstring
    /\ <<"d">> \in DOMAIN uOut.n.m
    /\ uOut.n.m[<<"d">>] = EmptyMap

\* the error kinds of the taxonomy that applying a path can give
MutatorTaxonomy ==
    {ErrTypeMismatch, ErrIndexOutOfBound, ErrMapNotFound, ErrPatternSubstring}

\* C25: applying a path to a document either succeeds or returns one of the
\* error kinds of the taxonomy; it returns no other error and does not
\* abort the process.
C25_FailuresInTaxonomy ==
    uPc = "out" => uOut.e \in {NoErr} \cup MutatorTaxonomy

\* elements i and j of the list at a, i the first match of the filter and j
\* a later one, both matching
TwoMatchesAt(i, j, value) ==
    /\ FirstMatchAt(i, value)
    /\ i < j /\ j <= Len(uDoc.m[fA].s)
    /\ MatchesAt(j, value)

\* every element of the list at a except element i is as it was
OnlyElementChanged(i) ==
    /\ uOut.n.m[fA].t = "seq"
    /\ Len(uOut.n.m[fA].s) = Len(uDoc.m[fA].s)
    /\ \A n \in 1..Len(uDoc.m[fA].s) :
           n # i => uOut.n.m[fA].s[n] = uDoc.m[fA].s[n]

\* C26: when several elements of the list at a match the filter, the
\* application succeeds on the first of them only: with the filter as the
\* last step the first match is replaced, with a further step b the field b
\* of the first match is written, and every later match is as it was.
C26_FirstMatchOnly ==
    \A value \in FilterValues :
        \A i \in 1..MaxSeqLen : \A j \in 1..MaxSeqLen :
            /\ (uPc = "out" /\ uPath = Filter(fA, fK, value)
                    /\ TwoMatchesAt(i, j, value))
                   => /\ uOut.e = NoErr
                      /\ uOut.n.m[fA].s[i] = uRepl
                      /\ OnlyElementChanged(i)
            /\ (uPc = "out" /\ uPath = Filter(fA, fK, value) \o <<".", "b">>
                    /\ TwoMatchesAt(i, j, value))
                   => /\ uOut.e = NoErr
                      /\ uOut.n.m[fA].s[i] =
                             MapN((fB :> uRepl) @@ uDoc.m[fA].s[i].m)
                      /\ OnlyElementChanged(i)

\* a[k=v].b applied to a list whose first and third elements both have
\* k = v: b is written in the first one, the third one is untouched
C26_Witness ==
    /\ uPc = "out" /\ uPath = Filter(fA, fK, <<"v">>) \o <<".", "b">>
    /\ ListAtA /\ Len(uDoc.m[fA].s) = 3
    /\ TwoMatchesAt(1, 3, <<"v">>)
    /\ uOut.e = NoErr
    /\ fB \in DOMAIN uOut.n.m[fA].s[1].m
    /\ uOut.n.m[fA].s[1].m[fB] = uRepl
    /\ uOut.n.m[fA].s[3] = MapN(fK :> Str(<<"v">>))

(***************************************************************************)
(* Claims about the collection during Transform, checked under Spec        *)
(***************************************************************************)

\* the writes that rules before rule r have made
WritesBefore(r) ==
    {k \in 1..Len(log) : log[k].op = "apply" /\ log[k].rule < r}

\* rule r reads its value from a document
FromDocument(r) == cfg[r].source.objref # NilPtr

\* an earlier rule has written the literal to the host of Cluster/c1, and
\* rule ri reads the host of Cluster/c1
HostChained ==
    /\ InRule /\ ri > 1
    /\ cfg[ri].source = Source(Sel("Cluster", "c1"), <<>>, kHost)
    /\ cfg[ri - 1].source = Source(NilPtr, Lit, <<>>)
    /\ cfg[ri - 1].target = Target(Sel("Cluster", "c1"), <<kHost>>)

\* C27: a rule that reads field F of document D after an earlier rule of
\* the same Transform call has written it resolves to the written value:
\* its value is the one found in the collection as the last write of the
\* earlier rules left it, and a rule that reads the host of Cluster/c1
\* right after a rule that wrote the literal there resolves to the literal
\* and not to the host Transform started with.
C27_LaterRuleReadsWrittenValue ==
    /\ (InRule /\ pc \in {"select", "apply"} /\ FromDocument(ri)
            /\ WritesBefore(ri) # {})
           => repl = getReplacement(log[Max(WritesBefore(ri))].after,
                                    cfg[ri].source.objref,
                                    cfg[ri].source.fieldref).v
    /\ (HostChained /\ pc \in {"select", "apply"})
           => /\ repl = Str(Lit)
              /\ repl # getReplacement(docs0, Sel("Cluster", "c1"), kHost).v

\* the literal has been written to the host of Cluster/c1 by one rule, read
\* from there by the next, and written to the first SAN of a Kubeadm, which
\* now holds the literal while Cluster/c1 started with the host h1
C27_Witness ==
    /\ HostChained
    /\ pc = "done" /\ err = NoErr
    /\ getReplacement(docs0, Sel("Cluster", "c1"), kHost).v = Str(<<"h", "1">>)
    /\ \E d \in 1..Len(docs) :
           /\ docs[d].kind = "Kubeadm"
           /\ docs[d].body.m[kSans].s[1] = Str(Lit)
           /\ docs0[d].body.m[kSans].s[1] = Str(<<"s", "0">>)

\* the rules whose targets Transform has selected so far
ProcessedRules == {log[k].rule : k \in {n \in 1..Len(log) : log[n].op = "select"}}

\* document d is matched by the target selector of a processed rule
Targeted(d) ==
    \E r \in ProcessedRules :
        \E n \in 1..Len(Select(docs0, cfg[r].target.objref)) :
            Select(docs0, cfg[r].target.objref)[n] = d

\* C28: at every moment of Transform, and so when it has ended with or
\* without an error, the collection has the documents it started with, in
\* the same places and with the same kinds and names, and every document
\* that no processed rule selects as a target has the content it started
\* with.
C28_OnlyTargetsWritten ==
    /\ Len(docs) = Len(docs0)
    /\ \A d \in 1..Len(docs) :
           /\ docs[d].kind = docs0[d].kind
           /\ docs[d].name = docs0[d].name
           /\ ~Targeted(d) => docs[d].body = docs0[d].body

\* Transform has failed after it had written to a target; the collection
\* differs from the one it started with, and a Cluster document that a
\* rule read its value from, and that no rule targets, is as it was
C28_Witness ==
    /\ pc = "done" /\ err = ErrIndexOutOfBound
    /\ docs # docs0
    /\ \E r \in ProcessedRules : cfg[r].source.objref = Sel("Cluster", "c1")
    /\ \E d \in 1..Len(docs) :
           /\ docs[d].kind = "Cluster" /\ docs[d].name = "c1"
           /\ ~Targeted(d)
           /\ docs[d] = docs0[d]

(***************************************************************************)
(* Claims about plan.Run, checked under PlanSpec                           *)
(***************************************************************************)

\* call k of the history is the call op for step i
IsPlanCall(k, op, i) == planCalls[k].op = op /\ planCalls[k].step = i

\* phase.Run of step i has returned nil
RanWell(i) ==
    \E k \in 1..Len(planCalls) :
        IsPlanCall(k, "Process", i) /\ planCalls[k].e = NoErr

\* C29: plan.Run takes the steps in the order of the plan: step i is looked
\* up and run only after phase.Run of every step before it has returned
\* nil, and no step is taken twice; the first error of a lookup or of a
\* phase.Run is what plan.Run returns, at once, with no call for a later
\* step; and plan.Run returns nil only when phase.Run has returned nil for
\* every step of the plan.
C29_PhasesInOrder ==
    /\ \A k \in 1..Len(planCalls) : \A n \in 1..Len(planCalls) :
           k < n => /\ planCalls[k].step <= planCalls[n].step
                    /\ planCalls[k].name = planPhases[planCalls[k].step]
                    /\ ~(planCalls[k].op = planCalls[n].op
                            /\ planCalls[k].step = planCalls[n].step)
    /\ \A k \in 1..Len(planCalls) :
           planCalls[k].op \in {"PhaseByID", "Executor"}
               => /\ \A i \in 1..(planCalls[k].step - 1) : RanWell(i)
                  /\ planCalls[k].op = "Executor"
                         => /\ k > 1
                            /\ IsPlanCall(k - 1, "PhaseByID", planCalls[k].step)
    /\ \A k \in 1..Len(planCalls) :
           planCalls[k].e # NoErr
               => /\ planPc = "returned"
                  /\ planErr = planCalls[k].e
                  /\ \A n \in (k + 1)..Len(planCalls) :
                         IsPlanCall(n, "Close", planCalls[k].step)
    /\ (planPc = "returned" /\ planErr = NoErr)
           => \A i \in 1..Len(planPhases) : RanWell(i)
    /\ (planPc = "returned" /\ planErr # NoErr)
           => \E k \in 1..Len(planCalls) : planCalls[k].e = planErr

\* a plan of three steps: the first phase has run, the processor of the
\* second has returned an error, plan.Run has returned it and has made no
\* call for the third step
C29_Witness ==
    /\ Len(planPhases) = 3
    /\ planPc = "returned" /\ planErr = ErrProcess
    /\ RanWell(1)
    /\ \E k \in 1..Len(planCalls) :
           IsPlanCall(k, "Process", 2) /\ planCalls[k].e = ErrProcess
    /\ \A k \in 1..Len(planCalls) : planCalls[k].step # 3

(***************************************************************************)
(* Claims about EncryptionConfigOptions.Validate, checked under EncSpec    *)
(***************************************************************************)

\* C30: Validate returns nil only if the name is not empty, exactly one of
\* the two backings is configured, for the file system backing both key
\* paths are not empty and exist in the file system, and for the API server
\* backing the secret name and the namespace are not empty.
C30_NilOnlyIfValid ==
    (encPc = "out" /\ encErr = EncNil)
        => /\ encO.Name # <<>>
           /\ backedByFileSystem(encO) # backedByAPIServer(encO)
           /\ backedByFileSystem(encO)
                  => /\ encO.EncryptionKeyPath # <<>>
                     /\ encO.DecryptionKeyPath # <<>>
                     /\ encO.EncryptionKeyPath \in encFiles
                     /\ encO.DecryptionKeyPath \in encFiles
           /\ backedByAPIServer(encO)
                  => /\ encO.KeySecretName # <<>>
                     /\ encO.KeySecretNamespace # <<>>

====
